---- MODULE Spec2Model ----
(***************************************************************************)
(* A model of the utools tool panels.                                      *)
(*                                                                         *)
(* Text is a sequence of Unicode scalar values (Rust `char`s); a byte      *)
(* offset into a text is computed from the UTF-8 width of each value, as   *)
(* String::len does.  Every panel is a record of buffers and fields; every *)
(* click or action handler is one action.                                  *)
(***************************************************************************)
EXTENDS Integers, Sequences, FiniteSets, TLC

VARIABLES
    original,               \* TextDifferenceTool.original (InputState value)
    modified,               \* TextDifferenceTool.modified (InputState value)
    granularity,            \* TextDifferenceTool.granularity
    difference_text,        \* TextDifferenceTool.difference_text
    difference_highlights,  \* TextDifferenceTool.difference_highlights
    compare_done,           \* history: the last handler run was on_compare_click
    first_run,              \* history: inputs and result of the first Compare
    enc_editor,             \* Base64EncoderTool.editor (InputState value)
    enc_encoded,            \* Base64EncoderTool.encoded (InputState value)
    enc_done,               \* history: Encode has run on the current editor text
    dec_editor,             \* Base64DecoderTool.editor (InputState value)
    dec_decoded,            \* Base64DecoderTool.decoded (InputState value)
    dec_outcome,            \* history: the match arm the last on_decode_click took
    json_editor,            \* JSONFormatterTool.editor (InputState value)
    indent_size,            \* JSONFormatterTool.indent_size
    json_source,            \* history: the editor text as the user last typed it
    json_trail,             \* history: the last two clicks since the user typed
    url_editor,             \* DataURLGeneratorTool.editor (InputState value)
    url_generated,          \* DataURLGeneratorTool.generated (InputState value)
    encoding,               \* DataURLGeneratorTool.encoding
    mime_type_auto_detect,  \* DataURLGeneratorTool.mime_type_auto_detect
    mime_type,              \* DataURLGeneratorTool.mime_type (InputState value)
    url_done,               \* history: the last handler run was on_generate_click
    ts_input,               \* UnixTimestampConverterTool.input (InputState value)
    converted_utc,          \* UnixTimestampConverterTool.converted_utc
    converted_local,        \* UnixTimestampConverterTool.converted_local
    since_relative,         \* UnixTimestampConverterTool.since_relative
    days_since_epoch,       \* UnixTimestampConverterTool.days_since_epoch
    months_since_epoch,     \* UnixTimestampConverterTool.months_since_epoch
    day_of_year,            \* UnixTimestampConverterTool.day_of_year
    ts_last,                \* history: timestamp and clock of the last Convert
    count_editor,           \* TextCharacterCountTool.editor (InputState value)
    character_count,        \* TextCharacterCountTool.character_count
    count_done,             \* history: the last handler run was on_count_click
    viewer_editor,          \* JSONViewerTool.editor (InputState value)
    view_mode,              \* JSONViewerTool.view_mode
    init_tool,              \* the command-line argument given to Gallery::new
    search_input,           \* Gallery.search_input (InputState value)
    active_group_index,     \* Gallery.active_group_index
    active_index,           \* Gallery.active_index
    at_startup,             \* history: no event has been handled since startup
    clipboard,              \* the system clipboard
    panicked                \* a handler has panicked: the process is gone

diffVars == <<original, modified, granularity, difference_text,
              difference_highlights, compare_done, first_run>>

b64Vars == <<enc_editor, enc_encoded, enc_done, dec_editor, dec_decoded,
             dec_outcome>>

jsonVars == <<json_editor, indent_size, json_source, json_trail>>

urlVars == <<url_editor, url_generated, encoding, mime_type_auto_detect,
             mime_type, url_done>>

tsVars == <<ts_input, converted_utc, converted_local, since_relative,
            days_since_epoch, months_since_epoch, day_of_year, ts_last>>

countVars == <<count_editor, character_count, count_done>>

galleryVars == <<init_tool, search_input, active_group_index, active_index,
                 at_startup>>

viewerVars == <<viewer_editor, view_mode>>

moreVars == <<urlVars, tsVars, countVars, galleryVars, viewerVars>>

vars == <<diffVars, b64Vars, jsonVars, moreVars, clipboard, panicked>>

(***************************************************************************)
(* Bounds of the model.                                                    *)
(***************************************************************************)
\* longest text typed or pasted into a buffer of the text-difference panel
MaxLen == 3

\* the characters typed into the text-difference panel: 'a', U+00E9 (two
\* bytes in UTF-8) and '\n' (whitespace and line terminator)
DiffAlphabet == {97, 233, 10}

RECURSIVE SeqsUpTo(_, _)
SeqsUpTo(S, n) ==
    IF n = 0 THEN {<<>>}
    ELSE LET shorter == SeqsUpTo(S, n - 1)
         IN  shorter \cup {Append(s, c) : s \in shorter, c \in S}

DiffTexts == SeqsUpTo(DiffAlphabet, MaxLen)

\* longest text of the runs whose history is kept
MaxObservedLen == 2

ObservedTexts == SeqsUpTo({97, 10}, MaxObservedLen)

\* longest text typed into the editor of the Base64 encoder
MaxSrcLen == 1

\* the chars typed into the editor of the Base64 encoder: chars of two,
\* three and four UTF-8 bytes (U+00E9, U+20BF, U+1F600), whose encodings
\* end in one, no and two padding chars
SrcAlphabet == {233, 8383, 128512}

\* longest text typed into the editor of the Base64 decoder
MaxEncLen == 4

\* the chars typed into the editor of the Base64 decoder: 'Y', 'Q', '/',
\* '=' and '*'
EncAlphabet == {89, 81, 47, 61, 42}

\* longest text typed into the editor of the JSON formatter
MaxJsonLen == 5

\* the chars typed into the editor of the JSON formatter: '[', ']', ',',
\* '1' and ' '
JsonAlphabet == {91, 93, 44, 49, 32}

(***************************************************************************)
(* Strings and bytes.                                                      *)
(***************************************************************************)
\* char::len_utf8
Utf8Len(c) ==
    IF c < 128 THEN 1 ELSE IF c < 2048 THEN 2 ELSE IF c < 65536 THEN 3 ELSE 4

\* str::len: the length of a text in bytes
RECURSIVE ByteLen(_)
ByteLen(s) == IF s = <<>> THEN 0 ELSE Utf8Len(Head(s)) + ByteLen(Tail(s))

\* char::is_whitespace (the Unicode White_Space property)
IsWhitespace(c) ==
    c \in ({9, 10, 11, 12, 13, 32, 133, 160, 5760, 8232, 8233, 8239, 8287, 12288}
           \cup (8192..8202))

RECURSIVE Concat(_)
Concat(ss) == IF ss = <<>> THEN <<>> ELSE Head(ss) \o Concat(Tail(ss))

(***************************************************************************)
(* The text-diffing library as on_compare_click uses it (similar::TextDiff *)
(* with the default configuration).                                        *)
(***************************************************************************)
\* TextDiff::from_chars tokenizes into single chars
split_chars(s) == [i \in 1..Len(s) |-> <<s[i]>>]

\* TextDiff::from_words tokenizes into maximal runs of whitespace and of
\* non-whitespace chars
RECURSIVE split_words(_)
split_words(s) ==
    IF s = <<>> THEN <<>>
    ELSE LET ws  == IsWhitespace(s[1])
             brk == {i \in 2..Len(s) : IsWhitespace(s[i]) # ws}
             end == IF brk = {} THEN Len(s)
                    ELSE (CHOOSE i \in brk : \A j \in brk : i <= j) - 1
         IN  <<SubSeq(s, 1, end)>> \o split_words(SubSeq(s, end + 1, Len(s)))

\* TextDiff::from_lines tokenizes into lines, each keeping its terminator
\* ("\n", "\r\n" or a lone "\r"); a last line without terminator is kept
RECURSIVE LinesOf(_)
LinesOf(s) ==
    IF s = <<>> THEN <<>>
    ELSE LET ends == {i \in 1..Len(s) :
                         \/ s[i] = 10
                         \/ s[i] = 13 /\ ~(i < Len(s) /\ s[i + 1] = 10)}
             end  == IF ends = {} THEN Len(s)
                     ELSE CHOOSE i \in ends : \A j \in ends : i <= j
         IN  <<SubSeq(s, 1, end)>> \o LinesOf(SubSeq(s, end + 1, Len(s)))

\* a line splitter that, like str::split, yields one empty line for the
\* empty text
split_lines_keep_empty(s) == IF s = <<>> THEN << <<>> >> ELSE LinesOf(s)

\* a line splitter that, like str::lines, drops the terminator of each line
split_lines_without_terminator(s) ==
    LET lines == LinesOf(s)
        Body(l) == SelectSeq(l, LAMBDA c : c \notin {10, 13})
    IN  [i \in 1..Len(lines) |-> Body(lines[i])]

split_lines(s) == LinesOf(s)

\* lines 79-83: the tokenization the granularity selects
Tokens(g, s) ==
    CASE g = "Character" -> split_chars(s)
      [] g = "Word"      -> split_words(s)
      [] g = "Line"      -> split_lines(s)

Max(a, b) == IF a >= b THEN a ELSE b

\* length of a longest common subsequence of two token sequences
RECURSIVE LcsLen(_, _)
LcsLen(a, b) ==
    IF a = <<>> \/ b = <<>> THEN 0
    ELSE IF Head(a) = Head(b) THEN 1 + LcsLen(Tail(a), Tail(b))
    ELSE Max(LcsLen(Tail(a), b), LcsLen(a, Tail(b)))

\* The shortest edit script of the library's Myers algorithm, one tag per
\* token step.  Among the shortest scripts the library's choice is fixed
\* but not documented; this model fixes it as: match the earliest common
\* token, and delete before inserting when both keep the script shortest.
RECURSIVE EditScript(_, _)
EditScript(a, b) ==
    IF a = <<>> THEN [i \in 1..Len(b) |-> "Insert"]
    ELSE IF b = <<>> THEN [i \in 1..Len(a) |-> "Delete"]
    ELSE IF Head(a) = Head(b) THEN <<"Equal">> \o EditScript(Tail(a), Tail(b))
    ELSE IF LcsLen(Tail(a), b) >= LcsLen(a, Tail(b))
         THEN <<"Delete">> \o EditScript(Tail(a), b)
         ELSE <<"Insert">> \o EditScript(a, Tail(b))

\* The script the library falls back to when a configured deadline expires
\* before the search ends: the common prefix and suffix are kept, everything
\* between them is deleted and inserted.
RECURSIVE CommonPrefixLen(_, _)
CommonPrefixLen(a, b) ==
    IF a = <<>> \/ b = <<>> \/ Head(a) # Head(b) THEN 0
    ELSE 1 + CommonPrefixLen(Tail(a), Tail(b))

Reverse(s) == [i \in 1..Len(s) |-> s[Len(s) + 1 - i]]

DeadlineScript(a, b) ==
    LET p  == CommonPrefixLen(a, b)
        a1 == SubSeq(a, p + 1, Len(a))
        b1 == SubSeq(b, p + 1, Len(b))
        q  == CommonPrefixLen(Reverse(a1), Reverse(b1))
    IN  [i \in 1..p |-> "Equal"]
        \o [i \in 1..(Len(a1) - q) |-> "Delete"]
        \o [i \in 1..(Len(b1) - q) |-> "Insert"]
        \o [i \in 1..q |-> "Equal"]

\* The outcomes of the deadline check of one diff run.  TextDiff::from_chars,
\* from_words and from_lines use the default configuration, which sets no
\* deadline, so the search always runs to its end.
DeadlineOutcomesWithTimeout == {FALSE, TRUE}
DeadlineOutcomes == {FALSE}

\* diff.ops(): the script grouped into operations.  A maximal run of Equal
\* steps is one Equal op; a maximal run of Delete and Insert steps is one
\* Delete, Insert or Replace op over the deleted old tokens and the inserted
\* new tokens.  Ranges are half-open token index ranges <<start, end>>.
RECURSIVE GroupOps(_, _, _)
GroupOps(script, oi, ni) ==
    IF script = <<>> THEN <<>>
    ELSE LET eq   == script[1] = "Equal"
             brk  == {i \in 2..Len(script) : (script[i] = "Equal") # eq}
             end  == IF brk = {} THEN Len(script)
                     ELSE (CHOOSE i \in brk : \A j \in brk : i <= j) - 1
             nd   == Cardinality({i \in 1..end : script[i] = "Delete"})
             nn   == Cardinality({i \in 1..end : script[i] = "Insert"})
             op   == IF eq
                     THEN [tag |-> "Equal", old |-> <<oi, oi + end>>,
                           new |-> <<ni, ni + end>>]
                     ELSE [tag |-> IF nn = 0 THEN "Delete"
                                   ELSE IF nd = 0 THEN "Insert" ELSE "Replace",
                           old |-> <<oi, oi + nd>>, new |-> <<ni, ni + nn>>]
         IN  <<op>> \o GroupOps(SubSeq(script, end + 1, Len(script)),
                                op.old[2], op.new[2])

ops(old_tokens, new_tokens, deadline_hit) ==
    GroupOps(IF deadline_hit THEN DeadlineScript(old_tokens, new_tokens)
             ELSE EditScript(old_tokens, new_tokens), 0, 0)

\* diff.iter_changes(op): one change per token of the op.  Equal changes
\* carry the old token, Delete changes the old token, Insert changes the new
\* token; a Replace op yields its deletes first and then its inserts.
\* a Replace op yielding its inserts before its deletes
iter_changes_inserts_first(op, old_tokens, new_tokens) ==
    LET dels == [i \in 1..(op.old[2] - op.old[1]) |->
                    [tag |-> "Delete", value |-> old_tokens[op.old[1] + i]]]
        inss == [i \in 1..(op.new[2] - op.new[1]) |->
                    [tag |-> "Insert", value |-> new_tokens[op.new[1] + i]]]
    IN  CASE op.tag = "Equal" ->
                 [i \in 1..(op.old[2] - op.old[1]) |->
                     [tag |-> "Equal", value |-> old_tokens[op.old[1] + i]]]
          [] op.tag = "Delete"  -> dels
          [] op.tag = "Insert"  -> inss
          [] op.tag = "Replace" -> inss \o dels

\* one change per op and tag, carrying the text of all its tokens
iter_changes_per_op(op, old_tokens, new_tokens) ==
    LET del == [tag |-> "Delete",
                value |-> Concat(SubSeq(old_tokens, op.old[1] + 1, op.old[2]))]
        ins == [tag |-> "Insert",
                value |-> Concat(SubSeq(new_tokens, op.new[1] + 1, op.new[2]))]
    IN  CASE op.tag = "Equal" ->
                 <<[tag |-> "Equal",
                    value |-> Concat(SubSeq(old_tokens, op.old[1] + 1, op.old[2]))]>>
          [] op.tag = "Delete"  -> <<del>>
          [] op.tag = "Insert"  -> <<ins>>
          [] op.tag = "Replace" -> <<del, ins>>

iter_changes(op, old_tokens, new_tokens) ==
    LET dels == [i \in 1..(op.old[2] - op.old[1]) |->
                    [tag |-> "Delete", value |-> old_tokens[op.old[1] + i]]]
        inss == [i \in 1..(op.new[2] - op.new[1]) |->
                    [tag |-> "Insert", value |-> new_tokens[op.new[1] + i]]]
    IN  CASE op.tag = "Equal" ->
                 [i \in 1..(op.old[2] - op.old[1]) |->
                     [tag |-> "Equal", value |-> old_tokens[op.old[1] + i]]]
          [] op.tag = "Delete"  -> dels
          [] op.tag = "Insert"  -> inss
          [] op.tag = "Replace" -> dels \o inss

(***************************************************************************)
(* TextDifferenceTool                                                      *)
(***************************************************************************)
Granularities == {"Character", "Word", "Line"}

\* the colours of Delete and Equal exchanged
colour_for_swapped(tag) ==
    CASE tag = "Delete" -> "foreground"
      [] tag = "Insert" -> "green"
      [] tag = "Equal"  -> "red"

\* lines 85-91: the colour of a change; the three theme colours are distinct
colour_for(tag) ==
    CASE tag = "Delete" -> "red"
      [] tag = "Insert" -> "green"
      [] tag = "Equal"  -> "foreground"

\* lines 96-106, the inner loop: each change of one op appended to the text,
\* its byte range and colour pushed on the highlights
RECURSIVE PushAll(_, _, _)
PushAll(acc, changes, in_bytes) ==
    IF changes = <<>> THEN acc
    ELSE LET change == Head(changes)
             len(t) == IF in_bytes THEN ByteLen(t) ELSE Len(t)
             pos    == len(acc.text)
             text   == acc.text \o change.value
         IN  PushAll([text |-> text,
                      highlights |-> Append(acc.highlights,
                          [range |-> <<pos, len(text)>>,
                           color |-> colour_for(change.tag)])],
                     Tail(changes), in_bytes)

\* positions counted in chars instead of bytes
PushChangesCharCount(acc, changes) == PushAll(acc, changes, FALSE)

PushChanges(acc, changes) == PushAll(acc, changes, TRUE)

\* lines 93-107: the loop over diff.ops()
RECURSIVE WalkOps(_, _, _, _)
WalkOps(acc, todo, old_tokens, new_tokens) ==
    IF todo = <<>> THEN acc
    ELSE WalkOps(PushChanges(acc, iter_changes(Head(todo), old_tokens, new_tokens)),
                 Tail(todo), old_tokens, new_tokens)

\* lines 76-107: text and highlights computed by one Compare
CompareResult(old, new, g, deadline_hit) ==
    LET old_tokens == Tokens(g, old)
        new_tokens == Tokens(g, new)
    IN  WalkOps([text |-> <<>>, highlights |-> <<>>],
                ops(old_tokens, new_tokens, deadline_hit), old_tokens, new_tokens)

\* render, lines 208-210: the input view (buffers, Compare, granularity menu)
\* is shown while the difference text is empty, the result view otherwise
InputViewShown == difference_text = <<>>

NoRun == [done |-> FALSE, again |-> FALSE]

\* lines 75-113
Compare ==
    /\ ~panicked
    /\ InputViewShown
    /\ UNCHANGED <<b64Vars, jsonVars, moreVars, clipboard, panicked>>
    /\ \E hit \in DeadlineOutcomes :
         LET r == CompareResult(original, modified, granularity, hit)
         IN  /\ difference_text' = r.text
             /\ difference_highlights' = r.highlights
    /\ compare_done' = TRUE
    /\ UNCHANGED <<original, modified, granularity>>

on_compare_click == Compare /\ UNCHANGED first_run

\* on_compare_click with the history of the first run kept
on_compare_click_observed ==
    /\ Compare
    /\ first_run' =
           IF first_run.done THEN [first_run EXCEPT !.again = TRUE]
           ELSE [done |-> TRUE, again |-> FALSE,
                 old |-> original, new |-> modified,
                 g |-> granularity, text |-> difference_text',
                 highlights |-> difference_highlights']

\* a Back that also clears the two input buffers
on_back_click_clearing_inputs ==
    /\ ~panicked
    /\ difference_text # <<>>
    /\ UNCHANGED <<b64Vars, jsonVars, moreVars, clipboard, panicked>>
    /\ difference_text' = <<>>
    /\ difference_highlights' = <<>>
    /\ original' = <<>>
    /\ modified' = <<>>
    /\ compare_done' = FALSE
    /\ UNCHANGED <<granularity, first_run>>

\* lines 115-118
on_back_click ==
    /\ ~panicked
    /\ ~InputViewShown
    /\ UNCHANGED <<b64Vars, jsonVars, moreVars, clipboard, panicked>>
    /\ difference_text' = <<>>
    /\ difference_highlights' = <<>>
    /\ compare_done' = FALSE
    /\ UNCHANGED <<original, modified, granularity, first_run>>

\* the user types into the Original buffer, or on_paste_original_click
\* (lines 125-137) replaces its value
set_original(texts) ==
    /\ ~panicked
    /\ InputViewShown
    /\ UNCHANGED <<b64Vars, jsonVars, moreVars, clipboard, panicked>>
    /\ \E t \in texts : original' = t
    /\ compare_done' = FALSE
    /\ UNCHANGED <<modified, granularity, difference_text,
                   difference_highlights, first_run>>

\* the user types into the Modified buffer, or on_paste_modified_click
\* (lines 144-156) replaces its value
set_modified(texts) ==
    /\ ~panicked
    /\ InputViewShown
    /\ UNCHANGED <<b64Vars, jsonVars, moreVars, clipboard, panicked>>
    /\ \E t \in texts : modified' = t
    /\ compare_done' = FALSE
    /\ UNCHANGED <<original, granularity, difference_text,
                   difference_highlights, first_run>>

\* lines 158-166; the granularity menu is part of the input view
on_action_set_granularity ==
    /\ ~panicked
    /\ InputViewShown
    /\ UNCHANGED <<b64Vars, jsonVars, moreVars, clipboard, panicked>>
    /\ \E g \in Granularities : granularity' = g
    /\ compare_done' = FALSE
    /\ UNCHANGED <<original, modified, difference_text,
                   difference_highlights, first_run>>


(***************************************************************************)
(* UTF-8 and the Base64 codec (base64::engine::general_purpose::STANDARD). *)
(***************************************************************************)
\* the UTF-8 bytes of one char
Utf8Char(c) ==
    IF c < 128 THEN <<c>>
    ELSE IF c < 2048 THEN <<192 + (c \div 64), 128 + (c % 64)>>
    ELSE IF c < 65536
         THEN <<224 + (c \div 4096), 128 + ((c \div 64) % 64), 128 + (c % 64)>>
    ELSE <<240 + (c \div 262144), 128 + ((c \div 4096) % 64),
           128 + ((c \div 64) % 64), 128 + (c % 64)>>

\* String::as_bytes: the UTF-8 bytes of a text
RECURSIVE Utf8Encode(_)
Utf8Encode(s) ==
    IF s = <<>> THEN <<>> ELSE Utf8Char(Head(s)) \o Utf8Encode(Tail(s))

IsCont(b) == 128 <= b /\ b <= 191

\* String::from_utf8: the text of a byte sequence, or an error when the
\* bytes are not well-formed UTF-8 (stray or missing continuation bytes,
\* overlong forms, surrogates, values above U+10FFFF)
RECURSIVE Utf8Decode(_)
Utf8Decode(bs) ==
    IF bs = <<>> THEN [ok |-> TRUE, text |-> <<>>]
    ELSE LET b1 == bs[1]
             n  == IF b1 < 128 THEN 1
                   ELSE IF 194 <= b1 /\ b1 <= 223 THEN 2
                   ELSE IF 224 <= b1 /\ b1 <= 239 THEN 3
                   ELSE IF 240 <= b1 /\ b1 <= 244 THEN 4
                   ELSE 0
             wellFormed ==
                 /\ n > 0
                 /\ Len(bs) >= n
                 /\ \A i \in 2..n : IsCont(bs[i])
                 /\ b1 = 224 => bs[2] >= 160
                 /\ b1 = 237 => bs[2] <= 159
                 /\ b1 = 240 => bs[2] >= 144
                 /\ b1 = 244 => bs[2] <= 143
             c  == CASE n = 1 -> b1
                     [] n = 2 -> (b1 - 192) * 64 + (bs[2] - 128)
                     [] n = 3 -> (b1 - 224) * 4096 + (bs[2] - 128) * 64
                                 + (bs[3] - 128)
                     [] n = 4 -> (b1 - 240) * 262144 + (bs[2] - 128) * 4096
                                 + (bs[3] - 128) * 64 + (bs[4] - 128)
         IN  IF ~wellFormed THEN [ok |-> FALSE]
             ELSE LET rest == Utf8Decode(SubSeq(bs, n + 1, Len(bs)))
                  IN  IF rest.ok THEN [ok |-> TRUE, text |-> <<c>> \o rest.text]
                      ELSE [ok |-> FALSE]

\* the char of a six-bit value in the URL-safe alphabet: A-Z a-z 0-9 - _
UrlSafeChar(i) ==
    IF i < 26 THEN 65 + i
    ELSE IF i < 52 THEN 97 + (i - 26)
    ELSE IF i < 62 THEN 48 + (i - 52)
    ELSE IF i = 62 THEN 45 ELSE 95

\* the char of a six-bit value in the IMAP alphabet: A-Z a-z 0-9 + ,
B64CharImap(i) ==
    IF i < 26 THEN 65 + i
    ELSE IF i < 52 THEN 97 + (i - 26)
    ELSE IF i < 62 THEN 48 + (i - 52)
    ELSE IF i = 62 THEN 43 ELSE 44

\* the char of a six-bit value in the standard alphabet: A-Z a-z 0-9 + /
B64Char(i) ==
    IF i < 26 THEN 65 + i
    ELSE IF i < 52 THEN 97 + (i - 26)
    ELSE IF i < 62 THEN 48 + (i - 52)
    ELSE IF i = 62 THEN 43 ELSE 47

\* the char of a six-bit value in the alphabet of the engine:
\* general_purpose::URL_SAFE or general_purpose::STANDARD
EngineChar(url_safe, i) == IF url_safe THEN UrlSafeChar(i) ELSE B64Char(i)

\* the six-bit value of a char of the standard alphabet, -1 for any other
B64Index(c) ==
    IF 65 <= c /\ c <= 90 THEN c - 65
    ELSE IF 97 <= c /\ c <= 122 THEN c - 97 + 26
    ELSE IF 48 <= c /\ c <= 57 THEN c - 48 + 52
    ELSE IF c = 43 THEN 62
    ELSE IF c = 47 THEN 63
    ELSE -1

\* the pad char '=' written after a final group of one or two bytes
PadNone(n) == <<>>
Pad(n) == [i \in 1..n |-> 61]

\* Engine::encode: three bytes to four chars, a final group of one or two
\* bytes to two or three chars and padding (both engines pad)
RECURSIVE B64EncodeWith(_, _)
B64EncodeWith(url_safe, bs) ==
    IF bs = <<>> THEN <<>>
    ELSE IF Len(bs) = 1
         THEN <<EngineChar(url_safe, bs[1] \div 4),
                EngineChar(url_safe, (bs[1] % 4) * 16)>> \o Pad(2)
    ELSE IF Len(bs) = 2
         THEN <<EngineChar(url_safe, bs[1] \div 4),
                EngineChar(url_safe, ((bs[1] % 4) * 16) + (bs[2] \div 16)),
                EngineChar(url_safe, (bs[2] % 16) * 4)>> \o Pad(1)
    ELSE <<EngineChar(url_safe, bs[1] \div 4),
           EngineChar(url_safe, ((bs[1] % 4) * 16) + (bs[2] \div 16)),
           EngineChar(url_safe, ((bs[2] % 16) * 4) + (bs[3] \div 64)),
           EngineChar(url_safe, bs[3] % 64)>>
             \o B64EncodeWith(url_safe, SubSeq(bs, 4, Len(bs)))

\* general_purpose::STANDARD.encode
B64Encode(bs) == B64EncodeWith(FALSE, bs)

\* Engine::decode of the STANDARD engine: every char must be of the standard
\* alphabet, padding must be canonical (the length a multiple of four, '='
\* only as the last one or two chars) and the unused bits of the last char
\* must be zero
RECURSIVE B64Decode(_)
B64Decode(cs) ==
    IF cs = <<>> THEN [ok |-> TRUE, bytes |-> <<>>]
    ELSE IF Len(cs) < 4 THEN [ok |-> FALSE]
    ELSE LET v == [i \in 1..4 |-> B64Index(cs[i])]
             last == Len(cs) = 4
             b1 == (v[1] * 4) + (v[2] \div 16)
             b2 == ((v[2] % 16) * 16) + (v[3] \div 4)
             b3 == ((v[3] % 4) * 64) + v[4]
         IN  IF v[1] < 0 \/ v[2] < 0 THEN [ok |-> FALSE]
             ELSE IF last /\ cs[3] = 61 /\ cs[4] = 61
                  THEN IF v[2] % 16 = 0
                       THEN [ok |-> TRUE, bytes |-> <<b1>>]
                       ELSE [ok |-> FALSE]
             ELSE IF v[3] < 0 THEN [ok |-> FALSE]
             ELSE IF last /\ cs[4] = 61
                  THEN IF v[3] % 4 = 0
                       THEN [ok |-> TRUE, bytes |-> <<b1, b2>>]
                       ELSE [ok |-> FALSE]
             ELSE IF v[4] < 0 THEN [ok |-> FALSE]
             ELSE LET rest == B64Decode(SubSeq(cs, 5, Len(cs)))
                  IN  IF rest.ok
                      THEN [ok |-> TRUE, bytes |-> <<b1, b2, b3>> \o rest.bytes]
                      ELSE [ok |-> FALSE]

(***************************************************************************)
(* Base64EncoderTool                                                       *)
(***************************************************************************)
\* the user types a char at the end of the editor, or deletes the last one
enc_type ==
    /\ ~panicked
    /\ \/ \E c \in SrcAlphabet :
             /\ Len(enc_editor) < MaxSrcLen
             /\ enc_editor' = Append(enc_editor, c)
       \/ /\ enc_editor # <<>>
          /\ enc_editor' = SubSeq(enc_editor, 1, Len(enc_editor) - 1)
    /\ enc_done' = FALSE
    /\ UNCHANGED <<enc_encoded, dec_editor, dec_decoded, dec_outcome,
                   clipboard, panicked, diffVars, jsonVars, moreVars>>

\* render: the Encode button is disabled while the editor is empty
EncodeEnabled == enc_editor # <<>>

on_encode_click ==
    /\ ~panicked
    /\ EncodeEnabled
    /\ enc_encoded' = B64Encode(Utf8Encode(enc_editor))
    /\ enc_done' = TRUE
    /\ UNCHANGED <<enc_editor, dec_editor, dec_decoded, dec_outcome,
                   clipboard, panicked, diffVars, jsonVars, moreVars>>

\* on_copy_encoded_click of the encoder: the encoded text to the clipboard
enc_on_copy_encoded_click ==
    /\ ~panicked
    /\ clipboard' = [text |-> enc_encoded]
    /\ UNCHANGED <<b64Vars, panicked, diffVars, jsonVars, moreVars>>

(***************************************************************************)
(* Base64DecoderTool                                                       *)
(***************************************************************************)
NoClipboard == [none |-> TRUE]

\* the user types a char at the end of the editor, or deletes the last one
dec_type ==
    /\ ~panicked
    /\ \/ \E c \in EncAlphabet :
             /\ Len(dec_editor) < MaxEncLen
             /\ dec_editor' = Append(dec_editor, c)
       \/ /\ dec_editor # <<>>
          /\ dec_editor' = SubSeq(dec_editor, 1, Len(dec_editor) - 1)
    /\ dec_outcome' = "none"
    /\ UNCHANGED <<enc_editor, enc_encoded, enc_done, dec_decoded,
                   clipboard, panicked, diffVars, jsonVars, moreVars>>

\* on_paste_click of the decoder: the clipboard text, when there is one,
\* replaces the editor value
dec_on_paste_click ==
    /\ ~panicked
    /\ dec_editor' = IF clipboard = NoClipboard THEN dec_editor ELSE clipboard.text
    /\ dec_outcome' = "none"
    /\ UNCHANGED <<enc_editor, enc_encoded, enc_done, dec_decoded,
                   clipboard, panicked, diffVars, jsonVars, moreVars>>

\* render: the Decode button is disabled while the editor is empty
DecodeEnabled == dec_editor # <<>>

\* what on_decode_click does with the decoded buffer for each arm of its
\* match: set_value on success, nothing on either error
DecodedAfterClearingOnError(arm, decoded_value) ==
    IF arm = "ok" THEN decoded_value ELSE <<>>

DecodedAfter(arm, decoded_value) ==
    IF arm = "ok" THEN decoded_value ELSE dec_decoded

on_decode_click ==
    /\ ~panicked
    /\ DecodeEnabled
    /\ LET bytes == B64Decode(dec_editor)
           value == IF bytes.ok THEN Utf8Decode(bytes.bytes) ELSE [ok |-> FALSE]
           arm   == IF ~bytes.ok THEN "invalid_encoding"
                    ELSE IF ~value.ok THEN "invalid_utf8" ELSE "ok"
       IN  /\ dec_decoded' = DecodedAfter(arm, IF value.ok THEN value.text ELSE <<>>)
           /\ dec_outcome' = arm
    /\ UNCHANGED <<enc_editor, enc_encoded, enc_done, dec_editor,
                   clipboard, panicked, diffVars, jsonVars, moreVars>>

InitB64 ==
    /\ enc_editor = <<>>
    /\ enc_encoded = <<>>
    /\ enc_done = FALSE
    /\ dec_editor = <<>>
    /\ dec_decoded = <<>>
    /\ dec_outcome = "none"

\* the decoder panel alone, its editor typed into
NextDec ==
    \/ dec_type
    \/ on_decode_click

\* the encoder panel, the clipboard and the decoder panel: text typed into
\* the encoder, encoded, copied, pasted into the decoder and decoded
NextB64 ==
    \/ enc_type
    \/ on_encode_click
    \/ enc_on_copy_encoded_click
    \/ dec_on_paste_click
    \/ on_decode_click


(***************************************************************************)
(* JSON as JSONFormatterTool uses it (serde_json), for documents of        *)
(* arrays and unsigned integers: the documents that can be written with    *)
(* the chars of JsonAlphabet.                                              *)
(***************************************************************************)
IsJsonWs(c) == c \in {32, 10, 9, 13}

IsDigit(c) == 48 <= c /\ c <= 57

\* the index of the first char at or after i that is not whitespace
RECURSIVE SkipWs(_, _)
SkipWs(s, i) ==
    IF i <= Len(s) /\ IsJsonWs(s[i]) THEN SkipWs(s, i + 1) ELSE i

\* the index after the run of digits that starts at i
RECURSIVE DigitsEnd(_, _)
DigitsEnd(s, i) ==
    IF i <= Len(s) /\ IsDigit(s[i]) THEN DigitsEnd(s, i + 1) ELSE i

\* the number written by a run of decimal digits
RECURSIVE DecimalValue(_)
DecimalValue(ds) ==
    IF ds = <<>> THEN 0
    ELSE DecimalValue(SubSeq(ds, 1, Len(ds) - 1)) * 10 + (ds[Len(ds)] - 48)

\* the decimal digits of a number
RECURSIVE DecimalText(_)
DecimalText(n) ==
    IF n < 10 THEN <<48 + n>> ELSE DecimalText(n \div 10) \o <<48 + (n % 10)>>

ParseError == [ok |-> FALSE]

\* Deserializer::parse_value: a value starting at index i of the text; the
\* result holds the value and the index after it
RECURSIVE ParseValue(_, _)
RECURSIVE ParseItems(_, _, _)
ParseValue(s, i) ==
    IF i > Len(s) THEN ParseError
    ELSE IF s[i] = 91
         THEN LET j == SkipWs(s, i + 1)
              IN  IF j <= Len(s) /\ s[j] = 93
                  THEN [ok |-> TRUE, val |-> [k |-> "array", items |-> <<>>],
                        pos |-> j + 1]
                  ELSE ParseItems(s, j, <<>>)
    ELSE IF IsDigit(s[i])
         THEN LET e == DigitsEnd(s, i)
              IN  IF s[i] = 48 /\ e > i + 1 THEN ParseError
                  ELSE [ok |-> TRUE,
                        val |-> [k |-> "number",
                                 v |-> DecimalValue(SubSeq(s, i, e - 1))],
                        pos |-> e]
    ELSE ParseError

\* the elements of an array from index i on, up to and including its ']'
ParseItems(s, i, acc) ==
    LET v == ParseValue(s, i)
    IN  IF ~v.ok THEN ParseError
        ELSE LET j == SkipWs(s, v.pos)
             IN  IF j > Len(s) THEN ParseError
                 ELSE IF s[j] = 44
                      THEN ParseItems(s, SkipWs(s, j + 1), Append(acc, v.val))
                 ELSE IF s[j] = 93
                      THEN [ok |-> TRUE,
                            val |-> [k |-> "array", items |-> Append(acc, v.val)],
                            pos |-> j + 1]
                 ELSE ParseError

\* serde_json::from_str: one value, with whitespace around it and nothing
\* else after it
from_str(s) ==
    LET v == ParseValue(s, SkipWs(s, 1))
    IN  IF v.ok /\ SkipWs(s, v.pos) > Len(s) THEN [ok |-> TRUE, val |-> v.val]
        ELSE ParseError

\* an indent that is one space short
SpacesOneShort(n) == [i \in 1..(IF n > 0 THEN n - 1 ELSE 0) |-> 32]

\* line 58: b" ".repeat(n)
Spaces(n) == [i \in 1..n |-> 32]

\* Serializer with PrettyFormatter::with_indent: an empty array is "[]"; the
\* elements of any other array are each on a line of their own, indented by
\* the indent times their depth, and the closing ']' is on its own line
RECURSIVE Pretty(_, _, _)
RECURSIVE PrettyItems(_, _, _)
RECURSIVE PrettyItemsNoCommas(_, _, _)
\* the elements on their lines without the ',' between them
PrettyItemsNoCommas(items, indent, depth) ==
    IF items = <<>> THEN <<>>
    ELSE <<10>> \o Spaces(indent * depth) \o Pretty(Head(items), indent, depth)
         \o PrettyItemsNoCommas(Tail(items), indent, depth)

Pretty(val, indent, depth) ==
    CASE val.k = "null"   -> <<110, 117, 108, 108>>
      [] val.k = "number" -> DecimalText(val.v)
      [] val.k = "array"  ->
             IF val.items = <<>> THEN <<91, 93>>
             ELSE <<91>> \o PrettyItems(val.items, indent, depth + 1)
                  \o <<10>> \o Spaces(indent * depth) \o <<93>>

PrettyItems(items, indent, depth) ==
    IF items = <<>> THEN <<>>
    ELSE <<10>> \o Spaces(indent * depth) \o Pretty(Head(items), indent, depth)
         \o (IF Len(items) > 1 THEN <<44>> ELSE <<>>)
         \o PrettyItems(Tail(items), indent, depth)

\* serde_json::to_string: no whitespace at all
RECURSIVE Compact(_)
RECURSIVE CompactItems(_)
Compact(val) ==
    CASE val.k = "null"   -> <<110, 117, 108, 108>>
      [] val.k = "number" -> DecimalText(val.v)
      [] val.k = "array"  -> <<91>> \o CompactItems(val.items) \o <<93>>

CompactItems(items) ==
    IF items = <<>> THEN <<>>
    ELSE Compact(Head(items)) \o (IF Len(items) > 1 THEN <<44>> ELSE <<>>)
         \o CompactItems(Tail(items))

(***************************************************************************)
(* JSONFormatterTool                                                       *)
(***************************************************************************)
\* Result::unwrap_or_default: Value::Null in place of a parse error
unwrap_or_default(parsed) ==
    IF parsed.ok THEN [panic |-> FALSE, val |-> parsed.val]
    ELSE [panic |-> FALSE, val |-> [k |-> "null"]]

\* Result::unwrap (lines 57 and 71): the value, or a panic on a parse error
unwrap(parsed) ==
    IF parsed.ok THEN [panic |-> FALSE, val |-> parsed.val]
    ELSE [panic |-> TRUE]

\* the user types a char at the end of the editor, or deletes the last one
json_type ==
    /\ ~panicked
    /\ \/ \E c \in JsonAlphabet :
             /\ Len(json_editor) < MaxJsonLen
             /\ json_editor' = Append(json_editor, c)
       \/ /\ json_editor # <<>>
          /\ json_editor' = SubSeq(json_editor, 1, Len(json_editor) - 1)
    /\ json_source' = json_editor'
    /\ json_trail' = <<>>
    /\ UNCHANGED <<indent_size, clipboard, panicked, diffVars, b64Vars, moreVars>>

\* the newest two entries of a trail of clicks
LastTwo(trail) ==
    IF Len(trail) <= 2 THEN trail ELSE SubSeq(trail, Len(trail) - 1, Len(trail))

\* render, lines 149 and 174: Format and Compact are disabled while the
\* editor is empty
FormatEnabled == json_editor # <<>>

\* lines 54-66
on_format_click ==
    /\ ~panicked
    /\ FormatEnabled
    /\ LET json_value == unwrap(from_str(json_editor))
       IN  IF json_value.panic
           THEN panicked' = TRUE /\ json_editor' = json_editor
           ELSE /\ json_editor' = Pretty(json_value.val, indent_size, 0)
                /\ panicked' = FALSE
    /\ json_trail' = LastTwo(Append(json_trail, "format"))
    /\ UNCHANGED json_source
    /\ UNCHANGED <<indent_size, clipboard, diffVars, b64Vars, moreVars>>

\* lines 68-75
on_compact_click ==
    /\ ~panicked
    /\ FormatEnabled
    /\ LET json_value == unwrap(from_str(json_editor))
       IN  IF json_value.panic
           THEN panicked' = TRUE /\ json_editor' = json_editor
           ELSE /\ json_editor' = Compact(json_value.val)
                /\ panicked' = FALSE
    /\ json_trail' = LastTwo(Append(json_trail, "compact"))
    /\ UNCHANGED json_source
    /\ UNCHANGED <<indent_size, clipboard, diffVars, b64Vars, moreVars>>

\* the sizes the Indentation Size menu offers (render, lines 152-169)
IndentSizes == {2, 3, 4}

\* lines 91-99
on_action_set_indent_size ==
    /\ ~panicked
    /\ \E n \in IndentSizes : indent_size' = n
    /\ UNCHANGED <<json_editor, json_source, json_trail, clipboard, panicked,
                   diffVars, b64Vars, moreVars>>

\* lines 34-52
\* on_copy_click of the formatter, lines 77-80: the editor text to the
\* clipboard
json_on_copy_click ==
    /\ ~panicked
    /\ clipboard' = [text |-> json_editor]
    /\ UNCHANGED <<jsonVars, panicked, diffVars, b64Vars, moreVars>>

\* a paste that also lands in the editor of the Base64 decoder
json_on_paste_click_shared_editor ==
    /\ ~panicked
    /\ clipboard # NoClipboard
    /\ json_editor' = clipboard.text
    /\ dec_editor' = clipboard.text
    /\ json_source' = json_editor'
    /\ json_trail' = <<>>
    /\ UNCHANGED <<indent_size, clipboard, panicked, diffVars, enc_editor,
                   enc_encoded, enc_done, dec_decoded, dec_outcome, moreVars>>

\* on_paste_click of the formatter, lines 82-89: the clipboard text, when
\* there is one, replaces the editor value
json_on_paste_click ==
    /\ ~panicked
    /\ json_editor' = IF clipboard = NoClipboard THEN json_editor ELSE clipboard.text
    /\ json_source' = json_editor'
    /\ json_trail' = <<>>
    /\ UNCHANGED <<indent_size, clipboard, panicked, diffVars, b64Vars, moreVars>>

InitJson ==
    /\ json_editor = <<>>
    /\ indent_size = 2
    /\ json_source = <<>>
    /\ json_trail = <<>>

NextJson ==
    \/ json_type
    \/ on_format_click
    \/ on_compact_click
    \/ on_action_set_indent_size

(***************************************************************************)
(* DataURLGeneratorTool                                                    *)
(***************************************************************************)
\* longest text typed into the editor of the data-URL generator
MaxUrlLen == 1

\* the chars typed into that editor: 'a', ',' (in the encode set), and
\* U+20BF and U+1F600, whose Base64 holds the six-bit values 63 and 62
UrlAlphabet == {97, 44, 8383, 128512}

\* "text/plain", the default value of the mime_type input (line 77)
TextPlain == <<116, 101, 120, 116, 47, 112, 108, 97, 105, 110>>

\* the texts the user puts into the mime_type input: the default, nothing,
\* and "image/png"
MimeTexts == {TextPlain, <<>>, <<105, 109, 97, 103, 101, 47, 112, 110, 103>>}

\* the encodings the menu offers (render, lines 213-222)
Encodings == {"Base64", "URL"}

\* DATA_URL_ENCODE_SET (line 32): the C0 controls and DEL, ',', '%' and '#'
InEncodeSet(b) == b < 32 \/ b = 127 \/ b \in {44, 37, 35}

\* an upper-case hex digit
HexDigit(n) == IF n < 10 THEN 48 + n ELSE 55 + n

\* utf8_percent_encode of one byte: every byte above 0x7F and every byte of
\* the set becomes '%' and two hex digits
PercentByte(b) ==
    IF b >= 128 \/ InEncodeSet(b)
    THEN <<37, HexDigit(b \div 16), HexDigit(b % 16)>>
    ELSE <<b>>

utf8_percent_encode(text) ==
    LET bytes == Utf8Encode(text)
    IN  Concat([i \in 1..Len(bytes) |-> PercentByte(bytes[i])])

\* the payload with the standard alphabet in place of the URL-safe one
generated_value_standard(enc, value) ==
    IF enc = "Base64"
    THEN <<98, 97, 115, 101, 54, 52, 44>> \o B64EncodeWith(FALSE, Utf8Encode(value))
    ELSE utf8_percent_encode(value)

\* lines 93-99: "base64," and the URL-safe Base64 of the text, or its
\* percent-encoding
generated_value(enc, value) ==
    IF enc = "Base64"
    THEN <<98, 97, 115, 101, 54, 52, 44>> \o B64EncodeWith(TRUE, Utf8Encode(value))
    ELSE utf8_percent_encode(value)

\* lines 101-105: ";charset=utf-8" for text/plain
mime_type_extra(mime) ==
    IF mime = TextPlain
    THEN <<59, 99, 104, 97, 114, 115, 101, 116, 61, 117, 116, 102, 45, 56>>
    ELSE <<>>

\* lines 108-111: format!("data:{}{};{}", ...)
DataUrl(mime, enc, value) ==
    <<100, 97, 116, 97, 58>> \o mime \o mime_type_extra(mime) \o <<59>>
        \o generated_value(enc, value)

\* the user types a char at the end of the editor, or deletes the last one
url_type ==
    /\ ~panicked
    /\ \/ \E c \in UrlAlphabet :
             /\ Len(url_editor) < MaxUrlLen
             /\ url_editor' = Append(url_editor, c)
       \/ /\ url_editor # <<>>
          /\ url_editor' = SubSeq(url_editor, 1, Len(url_editor) - 1)
    /\ url_done' = FALSE
    /\ UNCHANGED <<url_generated, encoding, mime_type_auto_detect, mime_type,
                   tsVars, countVars, galleryVars, viewerVars, diffVars, b64Vars, jsonVars,
                   clipboard, panicked>>

\* render, line 243: the mime_type input is shown, and can be edited, only
\* while auto-detect is off
set_mime_type ==
    /\ ~panicked
    /\ ~mime_type_auto_detect
    /\ \E m \in MimeTexts : mime_type' = m
    /\ url_done' = FALSE
    /\ UNCHANGED <<url_editor, url_generated, encoding, mime_type_auto_detect,
                   tsVars, countVars, galleryVars, viewerVars, diffVars, b64Vars, jsonVars,
                   clipboard, panicked>>

\* render, line 208: Generate is disabled while the editor is empty
GenerateEnabled == url_editor # <<>>

\* lines 91-116
on_generate_click ==
    /\ ~panicked
    /\ GenerateEnabled
    /\ url_generated' = DataUrl(mime_type, encoding, url_editor)
    /\ url_done' = TRUE
    /\ UNCHANGED <<url_editor, encoding, mime_type_auto_detect, mime_type,
                   tsVars, countVars, galleryVars, viewerVars, diffVars, b64Vars, jsonVars,
                   clipboard, panicked>>

\* lines 137-145
on_action_set_encoding ==
    /\ ~panicked
    /\ \E e \in Encodings : encoding' = e
    /\ url_done' = FALSE
    /\ UNCHANGED <<url_editor, url_generated, mime_type_auto_detect, mime_type,
                   tsVars, countVars, galleryVars, viewerVars, diffVars, b64Vars, jsonVars,
                   clipboard, panicked>>

\* lines 147-155
on_action_set_mime_type_auto_detect ==
    /\ ~panicked
    /\ \E b \in BOOLEAN : mime_type_auto_detect' = b
    /\ UNCHANGED <<url_editor, url_generated, encoding, mime_type, url_done,
                   tsVars, countVars, galleryVars, viewerVars, diffVars, b64Vars, jsonVars,
                   clipboard, panicked>>

\* lines 52-89
InitUrl ==
    /\ url_editor = <<>>
    /\ url_generated = <<>>
    /\ encoding = "Base64"
    /\ mime_type_auto_detect = TRUE
    /\ mime_type = TextPlain
    /\ url_done = FALSE

NextUrl ==
    \/ url_type
    \/ set_mime_type
    \/ on_generate_click
    \/ on_action_set_encoding
    \/ on_action_set_mime_type_auto_detect

(***************************************************************************)
(* UnixTimestampConverterTool: integers of 64 bits are kept as a sign and  *)
(* the decimal digits of the magnitude, instants as whole days since the   *)
(* epoch, the second of the day and the nanosecond.                        *)
(***************************************************************************)
\* longest text typed into the input of the timestamp converter
MaxTsLen == 2

\* the chars typed into that input: '-', '0', '1' and 'a'
TsAlphabet == {45, 48, 49, 97}

\* the decimal digits of i64::MAX and of the magnitude of i64::MIN
I64MaxDigits == <<9, 2, 2, 3, 3, 7, 2, 0, 3, 6, 8, 5, 4, 7, 7, 5, 8, 0, 7>>
I64MinDigits == <<9, 2, 2, 3, 3, 7, 2, 0, 3, 6, 8, 5, 4, 7, 7, 5, 8, 0, 8>>

\* the digits of a magnitude without leading zeros (no digit for zero)
RECURSIVE StripZeros(_)
StripZeros(ds) ==
    IF ds # <<>> /\ Head(ds) = 0 THEN StripZeros(Tail(ds)) ELSE ds

\* a <= b for magnitudes without leading zeros
RECURSIVE DigitsLE(_, _)
DigitsLE(a, b) ==
    IF Len(a) # Len(b) THEN Len(a) < Len(b)
    ELSE IF a = <<>> THEN TRUE
    ELSE IF Head(a) # Head(b) THEN Head(a) < Head(b)
    ELSE DigitsLE(Tail(a), Tail(b))

\* str::parse::<i64>: an optional '+' or '-', then one or more ASCII digits
\* and nothing else; a value outside i64 is an error
ParseI64(text) ==
    LET signed == text # <<>> /\ text[1] \in {43, 45}
        body   == IF signed THEN Tail(text) ELSE text
        neg    == signed /\ text[1] = 45
        mag    == StripZeros([i \in 1..Len(body) |-> body[i] - 48])
    IN  IF body = <<>> \/ \E i \in 1..Len(body) : ~IsDigit(body[i])
        THEN [ok |-> FALSE]
        ELSE IF ~DigitsLE(mag, IF neg THEN I64MinDigits ELSE I64MaxDigits)
        THEN [ok |-> FALSE]
        ELSE [ok |-> TRUE, neg |-> neg /\ mag # <<>>, mag |-> mag]

\* whole days beyond which no date is representable; quotients are cut off
\* above it
DayCap == 100000000

\* magnitude divided by 86400: quotient and remainder, or big when the
\* quotient is above DayCap
RECURSIVE DivMod86400(_, _, _)
DivMod86400(ds, q, r) ==
    IF ds = <<>> THEN [big |-> FALSE, q |-> q, r |-> r]
    ELSE LET v  == (r * 10) + Head(ds)
             q2 == (q * 10) + (v \div 86400)
         IN  IF q2 > DayCap THEN [big |-> TRUE]
             ELSE DivMod86400(Tail(ds), q2, v % 86400)

\* the digits of (D * 86400) + S for D, S >= 0, S < 86400, computed digit
\* by digit from the least significant digit of D
RECURSIVE MulAdd86400(_, _)
MulAdd86400(ds, carry) ==
    IF ds = <<>>
    THEN (IF carry = 0 THEN <<>> ELSE MulAdd86400(<<>>, carry \div 10) \o <<carry % 10>>)
    ELSE LET v == (ds[Len(ds)] * 86400) + carry
         IN  MulAdd86400(SubSeq(ds, 1, Len(ds) - 1), v \div 10) \o <<v % 10>>

\* the decimal digits of a natural number (no digit for zero)
RECURSIVE DigitsOf(_)
DigitsOf(n) == IF n = 0 THEN <<>> ELSE DigitsOf(n \div 10) \o <<n % 10>>

\* format!("{}") of a magnitude and of a signed integer
MagText(ds) == IF ds = <<>> THEN <<48>> ELSE [i \in 1..Len(ds) |-> 48 + ds[i]]
IntText(n) == IF n < 0 THEN <<45>> \o MagText(DigitsOf(-n)) ELSE MagText(DigitsOf(n))

\* the years chrono represents (NaiveDate::MIN and NaiveDate::MAX)
MinYear == -262143
MaxYear == 262142

\* the proleptic Gregorian date of a day counted from 1970-01-01
CivilFromDays(z) ==
    LET z2   == z + 719468
        era  == z2 \div 146097
        doe  == z2 - (era * 146097)
        yoe  == (((doe - (doe \div 1460)) + (doe \div 36524)) - (doe \div 146096)) \div 365
        doy  == doe - (((365 * yoe) + (yoe \div 4)) - (yoe \div 100))
        mp   == ((5 * doy) + 2) \div 153
        d    == (doy - (((153 * mp) + 2) \div 5)) + 1
        m    == IF mp < 10 THEN mp + 3 ELSE mp - 9
        y    == (yoe + (era * 400)) + (IF m <= 2 THEN 1 ELSE 0)
    IN  [year |-> y, month |-> m, day |-> d]

IsLeapYear(y) == (y % 4 = 0) /\ ((y % 100 # 0) \/ (y % 400 = 0))

\* Datelike::ordinal: the day of the year, 1 for 1 January
Ordinal(date) ==
    LET before == <<0, 31, 59, 90, 120, 151, 181, 212, 243, 273, 304, 334>>
    IN  (before[date.month] + date.day)
            + (IF date.month > 2 /\ IsLeapYear(date.year) THEN 1 ELSE 0)

\* Utc.timestamp_opt(value, 0): the instant as whole days since the epoch
\* (rounded down) and the second of that day, or None outside the years
\* chrono represents
timestamp_opt(value) ==
    LET dm == DivMod86400(value.mag, 0, 0)
    IN  IF dm.big THEN [some |-> FALSE]
        ELSE LET days == IF ~value.neg THEN dm.q
                         ELSE IF dm.r = 0 THEN -dm.q ELSE -(dm.q + 1)
                 secs == IF ~value.neg \/ dm.r = 0 THEN dm.r ELSE 86400 - dm.r
                 y    == CivilFromDays(days).year
             IN  IF y < MinYear \/ y > MaxYear THEN [some |-> FALSE]
                 ELSE [some |-> TRUE, days |-> days, secs |-> secs]

\* a number below 100 as two digits
Pad2(n) == <<48 + (n \div 10), 48 + (n % 10)>>

\* the year of a date as Display writes it: four digits for 0..9999, else a
\* sign and at least four digits
YearText(y) ==
    LET ds     == DigitsOf(IF y < 0 THEN -y ELSE y)
        zeros  == [i \in 1..(IF Len(ds) < 4 THEN 4 - Len(ds) ELSE 0) |-> 48]
        digits == zeros \o [i \in 1..Len(ds) |-> 48 + ds[i]]
    IN  IF 0 <= y /\ y <= 9999 THEN digits
        ELSE (IF y < 0 THEN <<45>> ELSE <<43>>) \o digits

\* Display of a NaiveDateTime: "YYYY-MM-DD HH:MM:SS"
NaiveText(days, secs) ==
    LET date == CivilFromDays(days)
    IN  YearText(date.year) \o <<45>> \o Pad2(date.month) \o <<45>> \o Pad2(date.day)
            \o <<32>> \o Pad2(secs \div 3600) \o <<58>> \o Pad2((secs % 3600) \div 60)
            \o <<58>> \o Pad2(secs % 60)

\* the date and time with 'T' between them and 'Z' after them
UtcTextRfc3339(at) ==
    LET plain == NaiveText(at.days, at.secs)
    IN  [i \in 1..Len(plain) |-> IF plain[i] = 32 THEN 84 ELSE plain[i]] \o <<90>>

\* Display of a DateTime<Utc> (line 69): the date, the time and " UTC"
UtcText(at) == NaiveText(at.days, at.secs) \o <<32, 85, 84, 67>>

\* the offsets of the local time zone from UTC, in seconds
TzOffsets == {0, 21600}

\* Display of a FixedOffset: "+HH:MM"
OffsetText(off) ==
    (IF off < 0 THEN <<45>> ELSE <<43>>)
        \o LET a == IF off < 0 THEN -off ELSE off
           IN  Pad2(a \div 3600) \o <<58>> \o Pad2((a % 3600) \div 60)

\* Display of a DateTime<Local> (lines 59 and 72)
LocalText(at, off) ==
    LET total == at.secs + off
    IN  NaiveText(at.days + (total \div 86400), total % 86400)
            \o <<32>> \o OffsetText(off)

\* the texts another program leaves on the clipboard for the converter
TsClipboardTexts ==
    {
     <<48>>,   \* "0"
     <<49, 55, 48, 48, 48, 48, 48, 48, 48, 48>>,   \* "1700000000"
     <<49, 55, 48, 48, 48, 48, 48, 48, 48, 49>>,   \* "1700000001"
     <<49, 55, 48, 48, 48, 48, 48, 48, 48, 50>>,   \* "1700000002"
     <<49, 54, 57, 57, 57, 57, 57, 57, 52, 49>>,   \* "1699999941"
     <<49, 54, 57, 57, 57, 57, 57, 57, 52, 48>>,   \* "1699999940"
     <<49, 54, 57, 57, 57, 57, 54, 52, 48, 48>>,   \* "1699996400"
     <<49, 54, 57, 57, 57, 49, 51, 54, 48, 48>>,   \* "1699913600"
     <<57, 53, 49, 55, 56, 50, 52, 48, 48>>,   \* "951782400"
     <<50, 53, 51, 52, 48, 50, 51, 48, 48, 56, 48, 48>>,   \* "253402300800"
     <<45, 56, 54, 52, 48, 49>>,   \* "-86401"
     <<45, 54, 50, 49, 57, 56, 55, 53, 53, 50, 48, 48>>,   \* "-62198755200"
     <<57, 50, 50, 51, 51, 55, 50, 48, 51, 54, 56, 53, 52, 55, 55, 53, 56, 48, 55>>,   \* "9223372036854775807"
     <<45, 57, 50, 50, 51, 51, 55, 50, 48, 51, 54, 56, 53, 52, 55, 55, 53, 56, 48, 56>>,   \* "-9223372036854775808"
     <<57, 50, 50, 51, 51, 55, 50, 48, 51, 54, 56, 53, 52, 55, 55, 53, 56, 48, 56>>,   \* "9223372036854775808"
     <<43, 53>>,   \* "+5"
     <<49, 46, 53>>,   \* "1.5"
     <<32, 49>>    \* " 1"
    }

\* the readings of the clock (Utc::now()): 2023-11-14T22:13:20Z, on the
\* second and half a second later
NowInstants ==
    {[days |-> 19675, secs |-> 80000, nanos |-> 0],
     [days |-> 19675, secs |-> 80000, nanos |-> 500000000]}

\* the variant that takes every instant after now as in the future
format_relative_time_rounding_up(now, at) ==
    LET s0   == now.secs - at.secs
        D    == (now.days - at.days) - (IF s0 < 0 THEN 1 ELSE 0)
        S    == IF s0 < 0 THEN s0 + 86400 ELSE s0
        fd   == IF S = 0 THEN -D ELSE (-D) - 1
        fs   == IF S = 0 THEN 0 ELSE 86400 - S
    IN  IF D < 0
        THEN <<105, 110, 32>> \o MagText(MulAdd86400(DigitsOf(fd), fs))
                 \o <<32, 115, 101, 99, 111, 110, 100, 115>>
        ELSE IF D > 0 THEN IntText(D) \o <<32, 100, 97, 121, 115, 32, 97, 103, 111>>
        ELSE IF S \div 3600 > 0
             THEN IntText(S \div 3600) \o <<32, 104, 111, 117, 114, 115, 32, 97, 103, 111>>
        ELSE IF S \div 60 > 0
             THEN IntText(S \div 60)
                      \o <<32, 109, 105, 110, 117, 116, 101, 115, 32, 97, 103, 111>>
        ELSE IntText(S) \o <<32, 115, 101, 99, 111, 110, 100, 115, 32, 97, 103, 111>>

\* lines 61 and 275-295: now.signed_duration_since(converted_utc) is D whole
\* days, S seconds and the nanoseconds of now, rounded down; num_seconds
\* rounds towards zero, so a duration between -1 s and 0 has 0 seconds
format_relative_time(now, at) ==
    LET s0   == now.secs - at.secs
        D    == (now.days - at.days) - (IF s0 < 0 THEN 1 ELSE 0)
        S    == IF s0 < 0 THEN s0 + 86400 ELSE s0
        \* the magnitude of a negative duration, rounded up: fd days, fs seconds
        fd   == IF S = 0 THEN -D ELSE (-D) - 1
        fs   == IF S = 0 THEN 0 ELSE 86400 - S
        adj  == IF now.nanos > 0 THEN 1 ELSE 0
        \* the same rounded towards zero
        td   == IF fs - adj < 0 THEN fd - 1 ELSE fd
        ts   == IF fs - adj < 0 THEN 86399 ELSE fs - adj
    IN  IF D < 0 /\ (td > 0 \/ ts > 0)
        THEN <<105, 110, 32>> \o MagText(MulAdd86400(DigitsOf(td), ts))
                 \o <<32, 115, 101, 99, 111, 110, 100, 115>>
        ELSE IF D < 0
        THEN <<48>> \o <<32, 115, 101, 99, 111, 110, 100, 115, 32, 97, 103, 111>>
        ELSE IF D > 0 THEN IntText(D) \o <<32, 100, 97, 121, 115, 32, 97, 103, 111>>
        ELSE IF S \div 3600 > 0
             THEN IntText(S \div 3600) \o <<32, 104, 111, 117, 114, 115, 32, 97, 103, 111>>
        ELSE IF S \div 60 > 0
             THEN IntText(S \div 60)
                      \o <<32, 109, 105, 110, 117, 116, 101, 115, 32, 97, 103, 111>>
        ELSE IntText(S) \o <<32, 115, 101, 99, 111, 110, 100, 115, 32, 97, 103, 111>>

\* the whole days rounded down
num_days_rounded_down(at) == at.days

\* line 63: (converted_utc - epoch).num_days(), rounded towards zero
num_days_since_epoch(at) ==
    IF at.days < 0 /\ at.secs > 0 THEN at.days + 1 ELSE at.days

\* lines 64-65
months_between(at) ==
    LET date == CivilFromDays(at.days)
    IN  ((date.year - 1970) * 12) + (date.month - 1)

\* the user types a char at the end of the input, or deletes the last one;
\* only texts of up to MaxTsLen chars are edited at the keyboard
ts_type ==
    /\ ~panicked
    /\ \/ \E c \in TsAlphabet :
             /\ Len(ts_input) < MaxTsLen
             /\ ts_input' = Append(ts_input, c)
       \/ /\ ts_input # <<>>
          /\ Len(ts_input) <= MaxTsLen
          /\ ts_input' = SubSeq(ts_input, 1, Len(ts_input) - 1)
    /\ UNCHANGED <<converted_utc, converted_local, since_relative,
                   days_since_epoch, months_since_epoch, day_of_year, ts_last,
                   urlVars, countVars, galleryVars, viewerVars, diffVars, b64Vars, jsonVars,
                   clipboard, panicked>>

\* another program puts a text on the clipboard
copy_elsewhere ==
    /\ ~panicked
    /\ \E text \in TsClipboardTexts : clipboard' = [text |-> text]
    /\ UNCHANGED <<tsVars, urlVars, countVars, galleryVars, viewerVars, diffVars, b64Vars,
                   jsonVars, panicked>>

\* lines 95-102
ts_on_paste_click ==
    /\ ~panicked
    /\ ts_input' = IF clipboard = NoClipboard THEN ts_input ELSE clipboard.text
    /\ UNCHANGED <<converted_utc, converted_local, since_relative,
                   days_since_epoch, months_since_epoch, day_of_year, ts_last,
                   urlVars, countVars, galleryVars, viewerVars, diffVars, b64Vars, jsonVars,
                   clipboard, panicked>>

\* lines 88-93
on_now_click ==
    /\ ~panicked
    /\ \E now \in NowInstants :
           ts_input' = IntText((now.days * 86400) + now.secs)
    /\ UNCHANGED <<converted_utc, converted_local, since_relative,
                   days_since_epoch, months_since_epoch, day_of_year, ts_last,
                   urlVars, countVars, galleryVars, viewerVars, diffVars, b64Vars, jsonVars,
                   clipboard, panicked>>

\* render, line 154: Convert is disabled while the input is empty
ConvertEnabled == ts_input # <<>>

NoConvert == [outcome |-> "none"]

\* Option::unwrap of line 58: the instant, or a panic on None
unwrap_instant(at) ==
    IF at.some THEN [panic |-> FALSE, at |-> at] ELSE [panic |-> TRUE]

\* lines 56-86
on_convert_click ==
    /\ ~panicked
    /\ ConvertEnabled
    /\ \E now \in NowInstants, off \in TzOffsets :
         LET value == ParseI64(ts_input)
             utc   == IF value.ok THEN unwrap_instant(timestamp_opt(value))
                      ELSE [panic |-> TRUE]
         IN  IF utc.panic
             THEN /\ panicked' = TRUE
                  /\ ts_last' = [outcome |-> IF value.ok THEN "out_of_range"
                                             ELSE "invalid_number"]
                  /\ UNCHANGED <<converted_utc, converted_local, since_relative,
                                 days_since_epoch, months_since_epoch,
                                 day_of_year>>
             ELSE /\ converted_utc' = UtcText(utc.at)
                  /\ converted_local' = LocalText(utc.at, off)
                  /\ since_relative' = format_relative_time(now, utc.at)
                  /\ days_since_epoch' = IntText(num_days_since_epoch(utc.at))
                  /\ months_since_epoch' = IntText(months_between(utc.at))
                  /\ day_of_year' = IntText(Ordinal(CivilFromDays(utc.at.days)))
                  /\ ts_last' = [outcome |-> "ok", text |-> ts_input,
                                 at |-> utc.at, now |-> now]
                  /\ panicked' = FALSE
    /\ UNCHANGED <<ts_input, urlVars, countVars, galleryVars, viewerVars, diffVars, b64Vars,
                   jsonVars, clipboard>>

\* the output fields, each with a copy control (render, lines 182-270)
TsFields == {"converted_utc", "converted_local", "since_relative",
             "days_since_epoch", "months_since_epoch", "day_of_year"}

\* the value of an output field
FieldValue(field) ==
    CASE field = "converted_utc"      -> converted_utc
      [] field = "converted_local"    -> converted_local
      [] field = "since_relative"     -> since_relative
      [] field = "days_since_epoch"   -> days_since_epoch
      [] field = "months_since_epoch" -> months_since_epoch
      [] field = "day_of_year"        -> day_of_year

\* render, lines 135-141: the value each copy control is given; the one of
\* the Local field is read from self.converted_utc (line 137)
CopyValue(field) ==
    CASE field = "converted_utc"      -> converted_utc
      [] field = "converted_local"    -> converted_utc
      [] field = "since_relative"     -> since_relative
      [] field = "days_since_epoch"   -> days_since_epoch
      [] field = "months_since_epoch" -> months_since_epoch
      [] field = "day_of_year"        -> day_of_year

\* a click on the copy control of an output field: value_fn of the
\* Clipboard suffix (lines 189-190, 199-200, 214-215, 234-235, 244-245,
\* 260-261)
ts_copy_click(field) ==
    /\ ~panicked
    /\ clipboard' = [text |-> CopyValue(field)]
    /\ UNCHANGED <<tsVars, urlVars, countVars, galleryVars, viewerVars, diffVars,
                   b64Vars, jsonVars, panicked>>

\* lines 35-54
InitTs ==
    /\ ts_input = <<>>
    /\ converted_utc = <<>>
    /\ converted_local = <<>>
    /\ since_relative = <<>>
    /\ days_since_epoch = <<>>
    /\ months_since_epoch = <<>>
    /\ day_of_year = <<>>
    /\ ts_last = NoConvert

NextTs ==
    \/ ts_type
    \/ copy_elsewhere
    \/ ts_on_paste_click
    \/ on_now_click
    \/ on_convert_click

(***************************************************************************)
(* TextCharacterCountTool                                                  *)
(***************************************************************************)
\* longest text typed into the editor of the character counter
MaxCountLen == 2

\* the chars typed into that editor: 'a', U+00E9 (two bytes in UTF-8) and
\* U+1F600 (four bytes)
CountAlphabet == {97, 233, 128512}

\* the user types a char at the end of the editor, or deletes the last one
count_type ==
    /\ ~panicked
    /\ \/ \E c \in CountAlphabet :
             /\ Len(count_editor) < MaxCountLen
             /\ count_editor' = Append(count_editor, c)
       \/ /\ count_editor # <<>>
          /\ count_editor' = SubSeq(count_editor, 1, Len(count_editor) - 1)
    /\ count_done' = FALSE
    /\ UNCHANGED <<character_count, urlVars, tsVars, galleryVars, viewerVars, diffVars,
                   b64Vars, jsonVars, clipboard, panicked>>

\* lines 46-50: String::len is the length in bytes
on_count_click ==
    /\ ~panicked
    /\ character_count' = ByteLen(count_editor)
    /\ count_done' = TRUE
    /\ UNCHANGED <<count_editor, urlVars, tsVars, galleryVars, viewerVars, diffVars,
                   b64Vars, jsonVars, clipboard, panicked>>

\* lines 52-56
count_on_copy_click ==
    /\ ~panicked
    /\ clipboard' = [text |-> count_editor]
    /\ UNCHANGED <<countVars, urlVars, tsVars, galleryVars, viewerVars, diffVars, b64Vars,
                   jsonVars, panicked>>

\* lines 58-65
count_on_paste_click ==
    /\ ~panicked
    /\ count_editor' = IF clipboard = NoClipboard THEN count_editor
                       ELSE clipboard.text
    /\ count_done' = FALSE
    /\ UNCHANGED <<character_count, urlVars, tsVars, galleryVars, viewerVars, diffVars,
                   b64Vars, jsonVars, clipboard, panicked>>

\* render, lines 111-116: the total is shown as "N characters" while it is
\* above zero, and not at all otherwise
DisplayedTotal ==
    IF character_count > 0
    THEN IntText(character_count) \o <<32, 99, 104, 97, 114, 97, 99, 116, 101, 114, 115>>
    ELSE <<>>

\* lines 31-44
InitCount ==
    /\ count_editor = <<>>
    /\ character_count = 0
    /\ count_done = FALSE

NextCount ==
    \/ count_type
    \/ on_count_click
    \/ count_on_copy_click
    \/ count_on_paste_click

(***************************************************************************)
(* JSONViewerTool                                                          *)
(***************************************************************************)
\* longest text typed into the editor of the viewer
MaxViewerLen == 2

\* the chars typed into that editor: '1', '[' and ']'
ViewerAlphabet == {49, 91, 93}

\* render, lines 125-134: the editor is part of the panel only while the
\* panel is not in view mode; there the user types a char at the end of the
\* editor, or deletes the last one
viewer_type ==
    /\ ~panicked
    /\ ~view_mode
    /\ \/ \E c \in ViewerAlphabet :
             /\ Len(viewer_editor) < MaxViewerLen
             /\ viewer_editor' = Append(viewer_editor, c)
       \/ /\ viewer_editor # <<>>
          /\ viewer_editor' = SubSeq(viewer_editor, 1, Len(viewer_editor) - 1)
    /\ UNCHANGED <<view_mode, urlVars, tsVars, countVars, galleryVars, diffVars,
                   b64Vars, jsonVars, clipboard, panicked>>

\* render, line 110: the View / Back button is disabled while the editor is
\* empty
ViewEnabled == viewer_editor # <<>>

\* lines 47-50
on_view_click ==
    /\ ~panicked
    /\ ViewEnabled
    /\ view_mode' = ~view_mode
    /\ UNCHANGED <<viewer_editor, urlVars, tsVars, countVars, galleryVars,
                   diffVars, b64Vars, jsonVars, clipboard, panicked>>

\* lines 52-55
viewer_on_copy_click ==
    /\ ~panicked
    /\ clipboard' = [text |-> viewer_editor]
    /\ UNCHANGED <<viewerVars, urlVars, tsVars, countVars, galleryVars, diffVars,
                   b64Vars, jsonVars, panicked>>

\* lines 57-64
viewer_on_paste_click ==
    /\ ~panicked
    /\ viewer_editor' = IF clipboard = NoClipboard THEN viewer_editor
                        ELSE clipboard.text
    /\ UNCHANGED <<view_mode, urlVars, tsVars, countVars, galleryVars, diffVars,
                   b64Vars, jsonVars, clipboard, panicked>>

\* lines 27-45
InitViewer ==
    /\ viewer_editor = <<>>
    /\ view_mode = FALSE

NextViewer ==
    \/ viewer_type
    \/ on_view_click
    \/ viewer_on_copy_click
    \/ viewer_on_paste_click

(***************************************************************************)
(* Gallery: the sidebar, the search input and the content area.            *)
(***************************************************************************)
\* Tool::title of every tool of the crate
ToolTitle(tool) ==
    CASE tool = "Base64EncoderTool" -> \* "Base64 Encoder"
           <<66, 97, 115, 101, 54, 52, 32, 69, 110, 99, 111, 100, 101, 114>>
      [] tool = "Base64DecoderTool" -> \* "Base64 Decoder"
           <<66, 97, 115, 101, 54, 52, 32, 68, 101, 99, 111, 100, 101, 114>>
      [] tool = "JSONFormatterTool" -> \* "JSON Formatter"
           <<74, 83, 79, 78, 32, 70, 111, 114, 109, 97, 116, 116, 101, 114>>
      [] tool = "JSONViewerTool" -> \* "JSON Viewer"
           <<74, 83, 79, 78, 32, 86, 105, 101, 119, 101, 114>>
      [] tool = "TextCharacterCountTool" -> \* "Text Character Count"
           <<84, 101, 120, 116, 32, 67, 104, 97, 114, 97, 99, 116, 101, 114, 32, 67, 111, 117, 110, 116>>
      [] tool = "TextDifferenceTool" -> \* "Text Difference"
           <<84, 101, 120, 116, 32, 68, 105, 102, 102, 101, 114, 101, 110, 99, 101>>
      [] tool = "UnixTimestampConverterTool" -> \* "Unix Timestamp Converter"
           <<85, 110, 105, 120, 32, 84, 105, 109, 101, 115, 116, 97, 109, 112, 32, 67, 111, 110, 118, 101, 114, 116, 101, 114>>
      [] tool = "DataURLGeneratorTool" -> \* "Data URL Generator"
           <<68, 97, 116, 97, 32, 85, 82, 76, 32, 71, 101, 110, 101, 114, 97, 116, 111, 114>>

\* the tools the crate exports (lib.rs, lines 23-33) whose source is present
AllTools ==
    {"Base64EncoderTool",
     "Base64DecoderTool",
     "JSONFormatterTool",
     "JSONViewerTool",
     "TextCharacterCountTool",
     "TextDifferenceTool",
     "UnixTimestampConverterTool",
     "DataURLGeneratorTool"}

\* lines 38-57: the groups of the sidebar and the tools of each
GalleryTools ==
    <<[name |-> "Base64", items |-> <<"Base64EncoderTool", "Base64DecoderTool">>],
      [name |-> "JSON", items |-> <<"JSONFormatterTool", "JSONViewerTool">>],
      [name |-> "Text", items |-> <<"TextCharacterCountTool">>]>>

\* str::to_lowercase on ASCII text
to_lowercase(text) ==
    [i \in 1..Len(text) |->
        IF 65 <= text[i] /\ text[i] <= 90 THEN text[i] + 32 ELSE text[i]]

\* str::trim: without the whitespace at both ends
RECURSIVE trim(_)
trim(text) ==
    IF text = <<>> THEN <<>>
    ELSE IF IsWhitespace(Head(text)) THEN trim(Tail(text))
    ELSE IF IsWhitespace(text[Len(text)]) THEN trim(SubSeq(text, 1, Len(text) - 1))
    ELSE text

\* str::contains
contains(hay, needle) ==
    \E i \in 1..(Len(hay) + 1) :
        /\ i + Len(needle) - 1 <= Len(hay)
        /\ SubSeq(hay, i, i + Len(needle) - 1) = needle

\* the filter that compares the title as it is written with the query
Matches_case_sensitive(tool, query) == contains(ToolTitle(tool), query)

\* line 97
Matches(tool, query) == contains(to_lowercase(ToolTitle(tool)), query)

\* the groups that still have a tool after filtering
RECURSIVE NonEmptyGroups(_)
NonEmptyGroups(groups) ==
    IF groups = <<>> THEN <<>>
    ELSE (IF Head(groups).items # <<>> THEN <<Head(groups)>> ELSE <<>>)
             \o NonEmptyGroups(Tail(groups))

\* render, lines 89-106: the groups and tools the sidebar lists
FilteredTools(search) ==
    LET query == to_lowercase(trim(search))
        Keep(tool) == Matches(tool, query)
    IN  NonEmptyGroups([g \in 1..Len(GalleryTools) |->
            [name  |-> GalleryTools[g].name,
             items |-> SelectSeq(GalleryTools[g].items, Keep)]])

\* render, lines 108-112: the tool shown in the content area, "none" when
\* the indices point at nothing
ActiveTool ==
    LET tools == FilteredTools(search_input)
    IN  IF active_group_index < Len(tools)
           /\ active_index < Len(tools[active_group_index + 1].items)
        THEN tools[active_group_index + 1].items[active_index + 1]
        ELSE "none"

\* the tools the sidebar lists
ListedTools ==
    LET tools == FilteredTools(search_input)
    IN  UNION {{tools[g].items[i] : i \in 1..Len(tools[g].items)} :
                  g \in 1..Len(tools)}

NoArg == [none |-> TRUE]

\* main, line 213: no argument, or the title of a tool
Args == {NoArg} \cup {[name |-> ToolTitle(t)] : t \in AllTools}

\* the texts the user puts into the search input: nothing, the titles,
\* "json", " Base64 " and "zz"
SearchTexts ==
    {<<>>} \cup {ToolTitle(t) : t \in AllTools}
        \cup {<<106, 115, 111, 110>>, <<32, 66, 97, 115, 101, 54, 52, 32>>,
              <<122, 122>>}

\* a change of the search input that leaves the selection where it was
search_change_keeping_selection ==
    /\ ~panicked
    /\ \E text \in SearchTexts :
           /\ text # search_input
           /\ search_input' = text
    /\ at_startup' = FALSE
    /\ UNCHANGED <<init_tool, active_group_index, active_index, urlVars, tsVars,
                   countVars, viewerVars, diffVars, b64Vars, jsonVars, clipboard,
                   panicked>>

\* lines 29-36: the user changes the search input; the subscription resets
\* both indices
search_change ==
    /\ ~panicked
    /\ \E text \in SearchTexts :
           /\ text # search_input
           /\ search_input' = text
    /\ active_group_index' = 0
    /\ active_index' = 0
    /\ at_startup' = FALSE
    /\ UNCHANGED <<init_tool, urlVars, tsVars, countVars, viewerVars, diffVars,
                   b64Vars, jsonVars, clipboard, panicked>>

\* lines 157-163: a click on a tool the sidebar lists
sidebar_click ==
    /\ ~panicked
    /\ LET tools == FilteredTools(search_input)
       IN  \E group_ix \in 0..(Len(tools) - 1) :
               \E ix \in 0..(Len(tools[group_ix + 1].items) - 1) :
                   /\ active_group_index' = group_ix
                   /\ active_index' = ix
    /\ at_startup' = FALSE
    /\ UNCHANGED <<init_tool, search_input, urlVars, tsVars, countVars,
                   viewerVars, diffVars, b64Vars, jsonVars, clipboard, panicked>>

\* lines 58-73: Gallery::new; set_active_tool (lines 75-80) puts the
\* argument into the search input
GalleryNew(arg) ==
    /\ init_tool = arg
    /\ search_input = IF arg = NoArg THEN <<>> ELSE arg.name
    /\ active_group_index = 0
    /\ active_index = 0
    /\ at_startup = TRUE

NextGallery ==
    \/ search_change
    \/ sidebar_click

\* lines 51-73
InitDiff ==
    /\ original = <<>>
    /\ modified = <<>>
    /\ granularity = "Word"
    /\ difference_text = <<>>
    /\ difference_highlights = <<>>
    /\ compare_done = FALSE
    /\ first_run = NoRun

\* the panels as constructed, nothing on the clipboard
InitPanels ==
    /\ InitDiff
    /\ InitB64
    /\ InitJson
    /\ InitUrl
    /\ InitTs
    /\ InitViewer
    /\ InitCount
    /\ clipboard = NoClipboard
    /\ panicked = FALSE

\* the process started without an argument
Init ==
    /\ InitPanels
    /\ GalleryNew(NoArg)

\* the process started with any argument
InitArgs ==
    /\ InitPanels
    /\ \E arg \in Args : GalleryNew(arg)

NextDiff ==
    \/ on_compare_click
    \/ on_back_click
    \/ set_original(DiffTexts)
    \/ set_modified(DiffTexts)
    \/ on_action_set_granularity

SpecDiff == Init /\ [][NextDiff]_vars

NextDiffObserved ==
    \/ on_compare_click_observed
    \/ on_back_click
    \/ set_original(ObservedTexts)
    \/ set_modified(ObservedTexts)
    \/ on_action_set_granularity

SpecDiffObserved == Init /\ [][NextDiffObserved]_vars

SpecDec == Init /\ [][NextDec]_vars

SpecB64 == Init /\ [][NextB64]_vars

SpecJson == Init /\ [][NextJson]_vars

SpecUrl == Init /\ [][NextUrl]_vars

SpecTs == Init /\ [][NextTs]_vars

\* the converter with the copy controls of its output fields
NextTsCopy ==
    \/ ts_type
    \/ on_convert_click
    \/ \E field \in TsFields : ts_copy_click(field)

SpecTsCopy == Init /\ [][NextTsCopy]_vars

SpecCount == Init /\ [][NextCount]_vars

SpecViewer == Init /\ [][NextViewer]_vars

\* the gallery with the panel of the JSON viewer in its content area: the
\* search input, the sidebar, the editor of the viewer and its View button
NextShell ==
    \/ NextGallery
    \/ viewer_type
    \/ on_view_click

SpecShell == InitArgs /\ [][NextShell]_vars

SpecGallery == InitArgs /\ [][NextGallery]_vars

\* the encoder and the formatter side by side: text typed into the
\* encoder, encoded, copied, pasted into the formatter, formatted there and
\* copied again
NextPanels ==
    \/ enc_type
    \/ on_encode_click
    \/ enc_on_copy_encoded_click
    \/ json_on_copy_click
    \/ json_on_paste_click
    \/ on_format_click
    \/ on_compact_click
    \/ on_action_set_indent_size

SpecPanels == Init /\ [][NextPanels]_vars

Next ==
    \/ NextDiff
    \/ NextDiffObserved
    \/ NextDec
    \/ NextB64
    \/ NextJson
    \/ NextUrl
    \/ NextTs
    \/ NextCount
    \/ NextViewer
    \/ NextGallery
    \/ NextTsCopy
    \/ NextPanels
    \/ NextShell

Spec == InitArgs /\ [][Next]_vars

(***************************************************************************)
(* Properties of the text-difference panel.                                *)
(***************************************************************************)
\* the chars of a text whose byte offsets lie in the half-open range
SliceBytes(t, range) ==
    LET keep == {i \in 1..Len(t) :
                    /\ range[1] <= ByteLen(SubSeq(t, 1, i - 1))
                    /\ ByteLen(SubSeq(t, 1, i)) <= range[2]}
    IN  IF keep = {} THEN <<>>
        ELSE SubSeq(t, CHOOSE i \in keep : \A j \in keep : i <= j,
                       CHOOSE i \in keep : \A j \in keep : i >= j)

\* the texts of the recorded segments with one of the given colours, in order
RECURSIVE SegmentTexts(_, _)
SegmentTexts(hs, colours) ==
    IF hs = <<>> THEN <<>>
    ELSE (IF Head(hs).color \in colours
          THEN <<SliceBytes(difference_text, Head(hs).range)>> ELSE <<>>)
         \o SegmentTexts(Tail(hs), colours)

RECURSIVE SumLengths(_)
SumLengths(hs) ==
    IF hs = <<>> THEN 0
    ELSE (Head(hs).range[2] - Head(hs).range[1]) + SumLengths(Tail(hs))

HasNoCommonChar(a, b) ==
    {a[i] : i \in 1..Len(a)} \cap {b[i] : i \in 1..Len(b)} = {}

\* C1: after any Compare the highlight ranges are in increasing order, the
\* first starts at byte 0, each next one starts where the previous one ends,
\* the last ends at the byte length of the difference text, and the range
\* lengths sum to that byte length.
C1_RangesTileOutput ==
    LET h == difference_highlights
        n == Len(h)
    IN  /\ \A i \in 1..n : h[i].range[1] < h[i].range[2]
        /\ n > 0 => h[1].range[1] = 0 /\ h[n].range[2] = ByteLen(difference_text)
        /\ \A i \in 1..(n - 1) : h[i + 1].range[1] = h[i].range[2]
        /\ SumLengths(h) = ByteLen(difference_text)

\* a Compare that recorded at least three segments, of more than one
\* classification, over a text holding a two-byte char
C1_Witness ==
    /\ compare_done
    /\ Len(difference_highlights) >= 3
    /\ Cardinality({difference_highlights[i].color :
                       i \in 1..Len(difference_highlights)}) >= 2
    /\ ByteLen(difference_text) > Len(difference_text)

\* C2 as stated: Compare of a non-empty text with itself records exactly one
\* segment, Equal, spanning the whole output, and the output is the text.
C2_AsStated ==
    (compare_done /\ original = modified /\ original # <<>>) =>
        /\ Len(difference_highlights) = 1
        /\ difference_highlights[1].color = "foreground"
        /\ difference_highlights[1].range = <<0, ByteLen(difference_text)>>
        /\ difference_text = original

\* C2 amended: Compare of a non-empty text with itself records one Equal
\* segment per token of the text at the selected granularity and nothing
\* else, the segments together span the whole output, and the output is the
\* text.
C2_IdentityPerToken ==
    (compare_done /\ original = modified /\ original # <<>>) =>
        LET h == difference_highlights
        IN  /\ Len(h) = Len(Tokens(granularity, original))
            /\ \A i \in 1..Len(h) : h[i].color = "foreground"
            /\ h[1].range[1] = 0
            /\ h[Len(h)].range[2] = ByteLen(difference_text)
            /\ difference_text = original

\* a text of several tokens compared with itself
C2_Witness ==
    /\ compare_done
    /\ original = modified
    /\ Len(Tokens(granularity, original)) >= 2
    /\ difference_text = original

\* C3 as stated: under Character granularity, inputs with no char in common
\* yield exactly two segments, Delete of the whole original and then Insert
\* of the whole modified.
C3_AsStated ==
    (/\ compare_done
     /\ granularity = "Character"
     /\ original # <<>>
     /\ modified # <<>>
     /\ HasNoCommonChar(original, modified)) =>
        /\ Len(difference_highlights) = 2
        /\ difference_highlights[1].color = "red"
        /\ difference_highlights[2].color = "green"
        /\ SliceBytes(difference_text, difference_highlights[1].range) = original
        /\ SliceBytes(difference_text, difference_highlights[2].range) = modified

\* C3 amended: under Character granularity, inputs with no char in common
\* yield one Delete segment per char of the original, in order, followed by
\* one Insert segment per char of the modified text, in order; a Delete
\* never follows an Insert.
C3_DeletesThenInserts ==
    (/\ compare_done
     /\ granularity = "Character"
     /\ HasNoCommonChar(original, modified)) =>
        LET h == difference_highlights
        IN  /\ Len(h) = Len(original) + Len(modified)
            /\ \A i \in 1..Len(h) :
                   h[i].color = IF i <= Len(original) THEN "red" ELSE "green"
            /\ SegmentTexts(h, {"red"}) = split_chars(original)
            /\ SegmentTexts(h, {"green"}) = split_chars(modified)

\* disjoint inputs of two or more chars each
C3_Witness ==
    /\ compare_done
    /\ granularity = "Character"
    /\ Len(original) >= 2
    /\ Len(modified) >= 2
    /\ HasNoCommonChar(original, modified)
    /\ Len(difference_highlights) = Len(original) + Len(modified)

\* C4 as stated: one pair is recorded per contiguous run of tokens with the
\* same tag, so no two neighbouring pairs have the same classification.
C4_AsStated ==
    compare_done =>
        \A i \in 1..(Len(difference_highlights) - 1) :
            difference_highlights[i].color # difference_highlights[i + 1].color

\* C4 amended: Compare records one pair per token of each edit-script
\* operation, in edit-script order: the Equal and Delete segments are, in
\* order, the tokens of the original, and the Equal and Insert segments are,
\* in order, the tokens of the modified text.
C4_OnePairPerToken ==
    compare_done =>
        /\ SegmentTexts(difference_highlights, {"foreground", "red"})
               = Tokens(granularity, original)
        /\ SegmentTexts(difference_highlights, {"foreground", "green"})
               = Tokens(granularity, modified)

\* a Compare whose edit script has an operation over two tokens and uses all
\* three classifications
C4_Witness ==
    /\ compare_done
    /\ \E i \in 1..(Len(difference_highlights) - 1) :
           difference_highlights[i].color = difference_highlights[i + 1].color
    /\ {difference_highlights[i].color : i \in 1..Len(difference_highlights)}
           = {"foreground", "red", "green"}

\* C5: Compare with both buffers empty, at any granularity, yields the empty
\* difference text and no highlight range.
C5_EmptyInputsEmptyOutput ==
    (compare_done /\ original = <<>> /\ modified = <<>>) =>
        /\ difference_text = <<>>
        /\ difference_highlights = <<>>

\* Compare has run on two empty buffers at Line granularity
C5_Witness ==
    /\ compare_done
    /\ original = <<>>
    /\ modified = <<>>
    /\ granularity = "Line"

DecoderInputInvalid ==
    \/ ~B64Decode(dec_editor).ok
    \/ ~Utf8Decode(B64Decode(dec_editor).bytes).ok

\* C7: a Decode click on invalid Base64, or on Base64 of bytes that are not
\* UTF-8, takes an error arm, leaves the decoded buffer and the editor as
\* they were before the click, and does not panic.
C7_DecodeErrorKeepsBuffers ==
    [][(on_decode_click /\ DecoderInputInvalid) =>
           /\ dec_outcome' \in {"invalid_encoding", "invalid_utf8"}
           /\ dec_decoded' = dec_decoded
           /\ dec_editor' = dec_editor
           /\ panicked' = FALSE]_vars

\* Decode has failed on bytes that are not UTF-8 and the decoded buffer
\* still shows the text of an earlier Decode
C7_Witness ==
    /\ dec_outcome = "invalid_utf8"
    /\ dec_decoded # <<>>
    /\ ~panicked

\* C8: when Decode has run on the text Encode produced for the encoder's
\* current editor text, the decoded buffer holds exactly that editor text.
C8_RoundTrip ==
    (enc_done /\ dec_editor = enc_encoded /\ dec_outcome # "none") =>
        /\ dec_outcome = "ok"
        /\ dec_decoded = enc_editor

\* a text with a char of several bytes has gone through Encode, Copy, Paste
\* and Decode
C8_Witness ==
    /\ enc_done
    /\ clipboard = [text |-> enc_encoded]
    /\ dec_editor = enc_encoded
    /\ dec_outcome = "ok"
    /\ dec_decoded = enc_editor
    /\ ByteLen(enc_editor) > Len(enc_editor)

\* C9: Encode never fails.  Whatever non-empty text the editor holds (every
\* such state has a keystroke leaving it), the Encode button can be clicked,
\* and every click overwrites the encoded buffer with the padded standard
\* Base64 of the UTF-8 bytes of the editor text, leaves the editor unchanged
\* and does not panic.
C9_EncodeIsTotal ==
    [][/\ (enc_type /\ enc_editor # <<>>) => ENABLED on_encode_click
       /\ on_encode_click =>
              /\ enc_editor' = enc_editor
              /\ panicked' = FALSE
              /\ Len(enc_encoded') = 4 * ((ByteLen(enc_editor) + 2) \div 3)
              /\ B64Decode(enc_encoded').ok
              /\ B64Decode(enc_encoded').bytes = Utf8Encode(enc_editor)]_vars

\* Encode has run on a four-byte char: the encoding holds '+' and padding
C9_Witness ==
    /\ enc_done
    /\ Len(enc_encoded) = 8
    /\ \E i \in 1..Len(enc_encoded) : enc_encoded[i] = 43
    /\ enc_encoded[8] = 61

(***************************************************************************)
(* Properties of the JSON formatter panel.                                 *)
(***************************************************************************)
\* C10: a click on Format or on Compact while the editor text does not parse
\* as JSON panics, and the editor text is not overwritten.
C10_ParseErrorPanics ==
    [][((on_format_click \/ on_compact_click) /\ ~from_str(json_editor).ok) =>
           /\ panicked'
           /\ json_editor' = json_editor]_vars

\* a click on whitespace-only text has panicked
C10_Witness ==
    /\ panicked
    /\ json_editor # <<>>
    /\ \A i \in 1..Len(json_editor) : json_editor[i] = 32

(***************************************************************************)
(* Properties of the JSON formatter: round trip.                           *)
(***************************************************************************)
\* C11: after Format and Compact clicks on a document the user typed, with
\* any indentation size, the editor text parses to the value the typed
\* document parses to; and when the last click was Compact, whether or not
\* Format clicks came before it, the editor text is the compact text of the
\* typed document.
C11_JsonRoundTrip ==
    (~panicked /\ json_trail # <<>> /\ from_str(json_source).ok) =>
        /\ from_str(json_editor).ok
        /\ from_str(json_editor).val = from_str(json_source).val
        /\ json_trail[Len(json_trail)] = "compact" =>
               json_editor = Compact(from_str(json_source).val)

\* Compact has run after Format, with an indentation other than the
\* default, on a typed array that holds an element and whitespace
C11_Witness ==
    /\ ~panicked
    /\ json_trail = <<"format", "compact">>
    /\ indent_size # 2
    /\ from_str(json_source).ok
    /\ from_str(json_source).val.k = "array"
    /\ from_str(json_source).val.items # <<>>
    /\ json_editor # json_source

(***************************************************************************)
(* Properties of the data-URL generator.                                   *)
(***************************************************************************)
\* a text of the URL-safe alphabet as the same text of the standard one;
\* a char of neither alphabet, and '+' and '/', become '*'
UrlSafeToStandard(cs) ==
    [i \in 1..Len(cs) |->
        IF cs[i] = 45 THEN 43
        ELSE IF cs[i] = 95 THEN 47
        ELSE IF cs[i] = 61 \/ (B64Index(cs[i]) >= 0 /\ B64Index(cs[i]) < 62) THEN cs[i]
        ELSE 42]

\* the value of a hex digit, -1 for any other char
HexValue(c) ==
    IF 48 <= c /\ c <= 57 THEN c - 48
    ELSE IF 65 <= c /\ c <= 70 THEN c - 55
    ELSE IF 97 <= c /\ c <= 102 THEN c - 87
    ELSE -1

\* the bytes a percent-encoded text stands for; not ok when a '%' is not
\* followed by two hex digits or a char is not ASCII
RECURSIVE PercentDecode(_)
PercentDecode(cs) ==
    IF cs = <<>> THEN [ok |-> TRUE, bytes |-> <<>>]
    ELSE IF Head(cs) = 37
         THEN IF Len(cs) < 3 \/ HexValue(cs[2]) < 0 \/ HexValue(cs[3]) < 0
              THEN [ok |-> FALSE]
              ELSE LET rest == PercentDecode(SubSeq(cs, 4, Len(cs)))
                   IN  IF rest.ok
                       THEN [ok |-> TRUE,
                             bytes |-> <<(HexValue(cs[2]) * 16) + HexValue(cs[3])>>
                                           \o rest.bytes]
                       ELSE [ok |-> FALSE]
    ELSE IF Head(cs) >= 128 THEN [ok |-> FALSE]
    ELSE LET rest == PercentDecode(Tail(cs))
         IN  IF rest.ok THEN [ok |-> TRUE, bytes |-> <<Head(cs)>> \o rest.bytes]
             ELSE [ok |-> FALSE]

\* C12: Generate never fails.  Whatever non-empty text the editor holds
\* (every such state has a keystroke leaving it), whatever the MIME-type
\* text and in both encodings, Generate can be clicked, does not panic and
\* writes the generated buffer: "data:", the MIME type (with the charset
\* for text/plain), ';' and the payload.  In Base64 mode the payload is
\* "base64," and the padded Base64 of the UTF-8 bytes of the text in the
\* URL-safe alphabet; in URL mode it is the percent-encoding of those bytes,
\* free of ',', '#', controls and non-ASCII chars.
C12_GenerateIsTotal ==
    [][/\ (url_type /\ url_editor # <<>>) => ENABLED on_generate_click
       /\ on_generate_click =>
              LET prefix  == <<100, 97, 116, 97, 58>> \o mime_type
                                 \o mime_type_extra(mime_type) \o <<59>>
                  out     == url_generated'
                  payload == SubSeq(out, Len(prefix) + 1, Len(out))
                  b64     == SubSeq(payload, 8, Len(payload))
              IN  /\ panicked' = FALSE
                  /\ url_editor' = url_editor
                  /\ SubSeq(out, 1, Len(prefix)) = prefix
                  /\ encoding = "Base64" =>
                         /\ SubSeq(payload, 1, 7) = <<98, 97, 115, 101, 54, 52, 44>>
                         /\ B64Decode(UrlSafeToStandard(b64)).ok
                         /\ B64Decode(UrlSafeToStandard(b64)).bytes
                                = Utf8Encode(url_editor)
                  /\ encoding = "URL" =>
                         /\ PercentDecode(payload).ok
                         /\ PercentDecode(payload).bytes = Utf8Encode(url_editor)
                         /\ \A i \in 1..Len(payload) :
                                /\ payload[i] >= 32
                                /\ payload[i] \notin {127, 44, 35}]_vars

\* Generate has run in Base64 mode with a MIME type the user supplied, on a
\* text whose encoding ends in '_'
C12_Witness ==
    /\ url_done
    /\ encoding = "Base64"
    /\ mime_type # TextPlain
    /\ url_generated # <<>>
    /\ url_generated[Len(url_generated)] = 95

(***************************************************************************)
(* Properties of the Unix timestamp converter.                             *)
(***************************************************************************)
\* "1970-01-01T00:00:00Z"
EpochRfc3339 ==
    <<49, 57, 55, 48, 45, 48, 49, 45, 48, 49, 84, 48, 48, 58,
      48, 48, 58, 48, 48, 90>>

\* "1970-01-01 00:00:00 UTC"
EpochDisplay ==
    <<49, 57, 55, 48, 45, 48, 49, 45, 48, 49, 32, 48, 48, 58,
      48, 48, 58, 48, 48, 32, 85, 84, 67>>

\* the last Convert succeeded, on the text "0"
ConvertedZero == ts_last.outcome = "ok" /\ ts_last.text = <<48>>

\* C13 as the specification states it: after Convert on "0" the UTC field
\* is exactly "1970-01-01T00:00:00Z", days since epoch "0", months since
\* epoch "0" and day of year "1".
C13_AsStated ==
    ConvertedZero =>
        /\ converted_utc = EpochRfc3339
        /\ days_since_epoch = <<48>>
        /\ months_since_epoch = <<48>>
        /\ day_of_year = <<49>>

\* C13: after Convert on "0" the UTC field is exactly
\* "1970-01-01 00:00:00 UTC" (the Display form of the instant), days since
\* epoch is "0", months since epoch is "0" and day of year is "1".
C13_ConvertZero ==
    ConvertedZero =>
        /\ converted_utc = EpochDisplay
        /\ days_since_epoch = <<48>>
        /\ months_since_epoch = <<48>>
        /\ day_of_year = <<49>>

\* Convert has run on "0", which is still in the input
C13_Witness == ConvertedZero /\ ts_input = <<48>> /\ converted_utc # <<>>

\* the six output fields of the converter
TsOutputs ==
    <<converted_utc, converted_local, since_relative, days_since_epoch,
      months_since_epoch, day_of_year>>

\* the input is not a number, or is a number below zero
NegativeOrNonNumeric ==
    LET value == ParseI64(ts_input)
    IN  ~value.ok \/ value.neg

\* C14 as the specification states it: Convert on a negative number or on a
\* text that is not a number ends in an error outcome, does not panic and
\* changes no output field.
C14_AsStated ==
    [][(on_convert_click /\ NegativeOrNonNumeric) =>
           /\ ~panicked'
           /\ ts_last'.outcome = "invalid_number"
           /\ TsOutputs' = TsOutputs]_vars

\* C15 as the specification states it: Convert on any text that parses as
\* a signed 64-bit integer does not panic and writes all six fields.
C15_AsStated ==
    [][(on_convert_click /\ ParseI64(ts_input).ok) =>
           /\ ~panicked'
           /\ ts_last'.outcome = "ok"
           /\ \A i \in 1..6 : TsOutputs'[i] # <<>>]_vars

(***************************************************************************)
(* Properties of the gallery.                                              *)
(***************************************************************************)
\* C16 as the specification states it: at startup the content area shows
\* the tool the argument names, for every tool of the application, and the
\* first tool when there is no argument.
C16_AsStated ==
    at_startup =>
        IF init_tool = NoArg THEN ActiveTool = GalleryTools[1].items[1]
        ELSE \A tool \in AllTools :
                 init_tool.name = ToolTitle(tool) => ActiveTool = tool

\* C17 as the specification states it: with an empty search query the
\* sidebar lists every tool the specification names.
C17_AsStated ==
    trim(search_input) = <<>> => AllTools \subseteq ListedTools

(***************************************************************************)
(* Properties of the character counter.                                    *)
(***************************************************************************)
\* C18 as the specification states it: after Count the total is the number
\* of characters of the editor text, and it is what the panel displays.
C18_AsStated ==
    count_done =>
        /\ character_count = Len(count_editor)
        /\ count_editor # <<>> =>
               DisplayedTotal = IntText(Len(count_editor))
                   \o <<32, 99, 104, 97, 114, 97, 99, 116, 101, 114, 115>>

(***************************************************************************)
(* Properties of the derived fields of the timestamp converter.            *)
(***************************************************************************)
\* the number a text of digits stands for
RECURSIVE NatOf(_)
NatOf(cs) ==
    IF cs = <<>> THEN 0 ELSE (NatOf(SubSeq(cs, 1, Len(cs) - 1)) * 10) + (cs[Len(cs)] - 48)

\* the number a text of digits with an optional sign stands for
SignedOf(cs) ==
    IF cs # <<>> /\ cs[1] = 45 THEN -NatOf(Tail(cs))
    ELSE IF cs # <<>> /\ cs[1] = 43 THEN NatOf(Tail(cs))
    ELSE NatOf(cs)

\* the date a text "Y-MM-DD HH:MM:SS ..." starts with
DateOfText(text) ==
    LET sp   == CHOOSE i \in 1..Len(text) :
                    text[i] = 32 /\ \A j \in 1..(i - 1) : text[j] # 32
        date == SubSeq(text, 1, sp - 1)
        n    == Len(date)
    IN  [year  |-> SignedOf(SubSeq(date, 1, n - 6)),
         month |-> NatOf(SubSeq(date, n - 4, n - 3)),
         day   |-> NatOf(SubSeq(date, n - 1, n))]

\* the days from 1970-01-01 to a date of the proleptic Gregorian calendar
DaysFromCivil(y, m, d) ==
    LET y2  == IF m <= 2 THEN y - 1 ELSE y
        era == y2 \div 400
        yoe == y2 - (era * 400)
        doy == (((153 * (IF m > 2 THEN m - 3 ELSE m + 9)) + 2) \div 5) + (d - 1)
        doe == (((yoe * 365) + (yoe \div 4)) - (yoe \div 100)) + doy
    IN  ((era * 146097) + doe) - 719468

\* C19: after a successful Convert of timestamp t, with (y, m, d) the date
\* the UTC field shows: that date is the day t falls on; months since epoch
\* is (y - 1970) * 12 + (m - 1); days since epoch is the whole number of
\* 86400-second days in t (towards zero for t before the epoch); and day of
\* year is the place of (y, m, d) in year y, 1 for 1 January.
C19_DerivedFields ==
    ts_last.outcome = "ok" =>
        LET value == ParseI64(ts_last.text)
            dm    == DivMod86400(value.mag, 0, 0)
            whole == IF value.neg THEN -dm.q ELSE dm.q
            floor == IF value.neg /\ dm.r # 0 THEN -(dm.q + 1) ELSE whole
            date  == DateOfText(converted_utc)
        IN  /\ DaysFromCivil(date.year, date.month, date.day) = floor
            /\ months_since_epoch
                   = IntText(((date.year - 1970) * 12) + (date.month - 1))
            /\ days_since_epoch = IntText(whole)
            /\ day_of_year
                   = IntText((DaysFromCivil(date.year, date.month, date.day)
                                 - DaysFromCivil(date.year, 1, 1)) + 1)

\* Convert has run on a timestamp before the epoch that is not a whole
\* number of days
C19_Witness ==
    /\ ts_last.outcome = "ok"
    /\ ParseI64(ts_last.text).neg
    /\ ts_last.at.secs # 0
    /\ days_since_epoch = <<45, 49>>
    /\ months_since_epoch = <<45, 49>>

(***************************************************************************)
(* Properties of the relative field of the timestamp converter.            *)
(***************************************************************************)
\* how far the converted instant lies after the clock reading of the last
\* Convert: whole days and seconds, the clock's nanoseconds left out
Ahead ==
    LET s0 == ts_last.at.secs - ts_last.now.secs
    IN  [days |-> (ts_last.at.days - ts_last.now.days) - (IF s0 < 0 THEN 1 ELSE 0),
         secs |-> s0 % 86400]

\* the converted instant is later than the clock reading
IsLater == Ahead.days > 0 \/ (Ahead.days = 0 /\ Ahead.secs > 0)

\* the whole seconds from the clock reading to a later instant: a second
\* less than Ahead when the clock reading has nanoseconds
WholeSecondsAhead ==
    LET less == IF ts_last.now.nanos > 0 THEN 1 ELSE 0
    IN  IF Ahead.secs - less < 0
        THEN [days |-> Ahead.days - 1, secs |-> 86399]
        ELSE [days |-> Ahead.days, secs |-> Ahead.secs - less]

\* "in N seconds" for N the whole seconds the instant is ahead
InSecondsText ==
    <<105, 110, 32>>
        \o MagText(MulAdd86400(DigitsOf(WholeSecondsAhead.days), WholeSecondsAhead.secs))
        \o <<32, 115, 101, 99, 111, 110, 100, 115>>

\* "N days ago", "N hours ago", "N minutes ago" or "N seconds ago" for the
\* whole days and seconds elapsed since an instant that is not later
AgoText ==
    LET days == -(Ahead.days) - (IF Ahead.secs > 0 THEN 1 ELSE 0)
        secs == (86400 - Ahead.secs) % 86400
    IN  IF days >= 1 THEN IntText(days) \o <<32, 100, 97, 121, 115, 32, 97, 103, 111>>
        ELSE IF secs >= 3600
        THEN IntText(secs \div 3600) \o <<32, 104, 111, 117, 114, 115, 32, 97, 103, 111>>
        ELSE IF secs >= 60
        THEN IntText(secs \div 60)
                 \o <<32, 109, 105, 110, 117, 116, 101, 115, 32, 97, 103, 111>>
        ELSE IntText(secs) \o <<32, 115, 101, 99, 111, 110, 100, 115, 32, 97, 103, 111>>

\* C20 as the specification states it: "in N seconds" whenever the
\* converted instant is later than the clock reading, otherwise the whole
\* count of the largest unit elapsed, "ago".
C20_AsStated ==
    ts_last.outcome = "ok" =>
        since_relative = IF IsLater THEN InSecondsText ELSE AgoText

\* C20: the relative field is "in N seconds", N the whole seconds from now
\* to t, when t is at least one whole second later than now; "0 seconds
\* ago" when t is later than now by less than a second; otherwise "N days
\* ago" when at least one whole day has elapsed, else "N hours ago" when at
\* least one whole hour, else "N minutes ago" when at least one whole
\* minute, else "N seconds ago".  N is a whole count and never negative.
C20_RelativeField ==
    ts_last.outcome = "ok" =>
        since_relative =
            IF IsLater /\ (WholeSecondsAhead.days > 0 \/ WholeSecondsAhead.secs > 0)
            THEN InSecondsText
            ELSE IF IsLater
            THEN <<48, 32, 115, 101, 99, 111, 110, 100, 115, 32, 97, 103, 111>>
            ELSE AgoText

\* Convert has run on a timestamp half a second after the clock reading
C20_Witness ==
    /\ ts_last.outcome = "ok"
    /\ IsLater
    /\ WholeSecondsAhead = [days |-> 0, secs |-> 0]
    /\ since_relative = <<48, 32, 115, 101, 99, 111, 110, 100, 115, 32, 97, 103, 111>>

(***************************************************************************)
(* Properties of the panels side by side.                                  *)
(***************************************************************************)
\* the buffers and fields of each panel
encoderFields == <<enc_editor, enc_encoded>>
decoderFields == <<dec_editor, dec_decoded>>
formatterFields == <<json_editor, indent_size>>
differenceFields == <<original, modified, granularity, difference_text,
                      difference_highlights>>
generatorFields == <<url_editor, url_generated, encoding, mime_type_auto_detect,
                     mime_type>>
converterFields == <<ts_input, converted_utc, converted_local, since_relative,
                     days_since_epoch, months_since_epoch, day_of_year>>
countFields == <<count_editor, character_count>>

\* the panels of which a buffer or field changes in a step
ChangedPanels ==
    {p \in {"encoder", "decoder", "formatter", "difference", "generator",
            "converter", "count"} :
        CASE p = "encoder"    -> encoderFields' # encoderFields
          [] p = "decoder"    -> decoderFields' # decoderFields
          [] p = "formatter"  -> formatterFields' # formatterFields
          [] p = "difference" -> differenceFields' # differenceFields
          [] p = "generator"  -> generatorFields' # generatorFields
          [] p = "converter"  -> converterFields' # converterFields
          [] p = "count"      -> countFields' # countFields}

C22_SegmentsRebuildInputs ==
    compare_done =>
        /\ Concat(SegmentTexts(difference_highlights, {"foreground", "red"}))
               = original
        /\ Concat(SegmentTexts(difference_highlights, {"foreground", "green"}))
               = modified

\* a Compare of two different texts with a line break that recorded an
\* Equal, a Delete and an Insert segment
C22_Witness ==
    /\ compare_done
    /\ original # modified
    /\ \E i \in 1..Len(original) : original[i] = 10
    /\ {difference_highlights[i].color : i \in 1..Len(difference_highlights)}
           = {"foreground", "red", "green"}

\* C23: the result view with its Back button is shown exactly when the
\* difference text is non-empty; Back resets the difference text and the
\* highlight list to empty; Compare and Back leave the original buffer, the
\* modified buffer and the granularity unchanged (a step after which
\* compare_done holds is a Compare), and nothing changes them while the
\* result view is shown, so the inputs shown after Back are the ones that
\* were compared.
C23_ResultViewAndBack ==
    [][/\ ENABLED on_back_click <=> (difference_text # <<>>)
       /\ on_back_click =>
              /\ difference_text' = <<>>
              /\ difference_highlights' = <<>>
       /\ (compare_done' \/ on_back_click) =>
              UNCHANGED <<original, modified, granularity>>
       /\ difference_text # <<>> =>
              UNCHANGED <<original, modified, granularity>>]_vars

\* the first Compare gave a non-empty difference, Back has closed the result
\* view, and the input view shows the two texts that were compared
C23_Witness ==
    /\ first_run.done
    /\ ~first_run.again
    /\ first_run.text # <<>>
    /\ first_run.old # first_run.new
    /\ difference_text = <<>>
    /\ difference_highlights = <<>>
    /\ original = first_run.old
    /\ modified = first_run.new
    /\ granularity = first_run.g

(***************************************************************************)
(* More properties of the data-URL generator.                              *)
(***************************************************************************)
\* C24 as the specification states it: every generated URL is "data:", the
\* MIME type, ";charset=utf-8" exactly when the MIME type is "text/plain",
\* ";base64" in Base64 mode, a comma, and the payload.
C24_AsStated ==
    [][on_generate_click =>
        LET charset == IF mime_type = TextPlain
                       THEN <<59, 99, 104, 97, 114, 115, 101, 116, 61, 117, 116,
                              102, 45, 56>>            \* ";charset=utf-8"
                       ELSE <<>>
            base64  == IF encoding = "Base64"
                       THEN <<59, 98, 97, 115, 101, 54, 52>>   \* ";base64"
                       ELSE <<>>
            payload == IF encoding = "Base64"
                       THEN B64EncodeWith(TRUE, Utf8Encode(url_editor))
                       ELSE utf8_percent_encode(url_editor)
        IN  url_generated' =
                <<100, 97, 116, 97, 58>> \o mime_type \o charset \o base64
                    \o <<44>> \o payload]_vars

\* C25 as the specification states it: a Generate clicked while the
\* MIME-type mode is Auto-detect writes the default "text/plain" into the
\* URL, whatever the hidden MIME-type field holds.
C25_AsStated ==
    [][(on_generate_click /\ mime_type_auto_detect) =>
           url_generated' = DataUrl(TextPlain, encoding, url_editor)]_vars

(***************************************************************************)
(* Properties of the JSON viewer.                                          *)
(***************************************************************************)
\* C26 as the specification states it: whenever the panel is in view mode
\* the Back button is enabled.
C26_AsStated == view_mode => ENABLED on_view_click

(***************************************************************************)
(* Properties of the sidebar and the selection.                            *)
(***************************************************************************)
\* the tools of the gallery's list
RegisteredTools ==
    UNION {{GalleryTools[g].items[i] : i \in 1..Len(GalleryTools[g].items)} :
              g \in 1..Len(GalleryTools)}

\* the sidebar items rendered as active: those whose position in the
\* filtered list is the stored selection (render, lines 151-154)
HighlightedTools ==
    LET tools == FilteredTools(search_input)
    IN  {tools[g].items[i] :
            <<g, i>> \in {gi \in (1..Len(tools)) \X (1..2) :
                             /\ gi[2] <= Len(tools[gi[1]].items)
                             /\ active_group_index = gi[1] - 1
                             /\ active_index = gi[2] - 1}}

\* the sidebar groups are those with a listed tool, in the gallery's order,
\* and when a tool is listed the content area shows one tool, the one the
\* sidebar highlights
ShownToolIsHighlighted ==
    /\ \A g \in 1..Len(FilteredTools(search_input)) :
           FilteredTools(search_input)[g].items # <<>>
    /\ ListedTools # {} =>
           /\ ActiveTool \in ListedTools
           /\ HighlightedTools = {ActiveTool}

\* C27 as the specification states it: the sidebar lists exactly the tools
\* whose title contains the trimmed, lower-cased query.
C27_AsStated ==
    /\ ListedTools =
           {t \in RegisteredTools :
               contains(ToolTitle(t), to_lowercase(trim(search_input)))}
    /\ ShownToolIsHighlighted

\* C27: the sidebar lists exactly the tools of the gallery's list whose
\* lower-cased title contains the trimmed, lower-cased query; groups without
\* a match are hidden; whenever a tool is listed, the content area shows
\* exactly one tool and it is the one highlighted in the sidebar.
C27_SidebarMatchesQuery ==
    /\ ListedTools =
           {t \in RegisteredTools :
               contains(to_lowercase(ToolTitle(t)), to_lowercase(trim(search_input)))}
    /\ ShownToolIsHighlighted

\* the query " Base64 " lists the two Base64 tools, and a click has made the
\* second one active
C27_Witness ==
    /\ search_input = <<32, 66, 97, 115, 101, 54, 52, 32>>
    /\ ListedTools = {"Base64EncoderTool", "Base64DecoderTool"}
    /\ ActiveTool = "Base64DecoderTool"
    /\ HighlightedTools = {"Base64DecoderTool"}

\* C28: every change of the search text sets the selection to group 0,
\* item 0; a sidebar click stores the position of the clicked item in the
\* filtered list as rendered and leaves the search text alone; nothing else
\* changes the selection.
C28_SelectionChanges ==
    [][/\ search_input' # search_input =>
              active_group_index' = 0 /\ active_index' = 0
       /\ (UNCHANGED <<search_input, viewerVars>> /\ sidebar_click) =>
              /\ active_group_index' < Len(FilteredTools(search_input))
              /\ active_index' <
                     Len(FilteredTools(search_input)[active_group_index' + 1].items)
              /\ FilteredTools(search_input)[active_group_index' + 1]
                     .items[active_index' + 1] \in ListedTools
       /\ <<active_group_index, active_index>>' # <<active_group_index, active_index>>
              => \/ search_input' # search_input
                 \/ UNCHANGED viewerVars /\ sidebar_click
       /\ viewerVars' # viewerVars
              => UNCHANGED <<active_group_index, active_index, search_input>>
      ]_vars

\* with the query "json" a click has selected the viewer, second item of the
\* first listed group, while the viewer panel holds a text
C28_Witness ==
    /\ search_input = <<106, 115, 111, 110>>
    /\ active_group_index = 0
    /\ active_index = 1
    /\ ActiveTool = "JSONViewerTool"
    /\ viewer_editor # <<>>

(***************************************************************************)
(* More properties of the JSON formatter.                                  *)
(***************************************************************************)
\* the number of spaces a line starts with
LeadingSpaces(line) ==
    CHOOSE n \in 0..Len(line) :
        /\ \A i \in 1..n : line[i] = 32
        /\ n = Len(line) \/ line[n + 1] # 32

\* how many times a char occurs in a text
Occurrences(c, text) == Cardinality({i \in 1..Len(text) : text[i] = c})

\* every line of a text starts with size spaces for each array that is open
\* where the line starts, a line that closes an array counting as outside it
IndentedBy(size, text) ==
    LET lines == LinesOf(text)
    IN  \A k \in 1..Len(lines) :
            LET before == Concat(SubSeq(lines, 1, k - 1))
                open   == Occurrences(91, before) - Occurrences(93, before)
                n      == LeadingSpaces(lines[k])
                closes == n < Len(lines[k]) /\ lines[k][n + 1] = 93
            IN  n = size * (IF closes THEN open - 1 ELSE open)

\* C29: the indentation size is 2 initially and always one of 2, 3 and 4;
\* changing it leaves the editor text as it is; a Format that succeeds
\* writes a text on which Format with the same size changes nothing, and
\* Format clicked on such a text leaves it unchanged; in the text Format
\* writes, each line is indented by the size times its nesting depth.
C29_FormatIsIdempotent ==
    /\ indent_size = 2
    /\ [][/\ indent_size' \in {2, 3, 4}
          /\ on_action_set_indent_size => json_editor' = json_editor
          /\ (on_format_click /\ ~panicked') =>
                 /\ from_str(json_editor').ok
                 /\ Pretty(from_str(json_editor').val, indent_size, 0) = json_editor'
                 /\ IndentedBy(indent_size, json_editor')
                 /\ (json_trail # <<>> /\ json_trail[Len(json_trail)] = "format"
                        /\ IndentedBy(indent_size, json_editor))
                        => json_editor' = json_editor]_vars

\* Format has been clicked twice in a row, with an indentation size the user
\* chose, on an array within an array
C29_Witness ==
    /\ ~panicked
    /\ json_trail = <<"format", "format">>
    /\ indent_size = 3
    /\ json_source = <<91, 91, 49, 93, 93>>
    /\ json_editor = Pretty(from_str(json_source).val, 3, 0)
    /\ Len(LinesOf(json_editor)) = 5

(***************************************************************************)
(* Properties of the copy controls of the timestamp converter.             *)
(***************************************************************************)
\* C30 as the specification states it: the copy control of each output
\* field puts the value of that field on the clipboard.
C30_AsStated ==
    [][\A field \in TsFields :
           ts_copy_click(field) => clipboard' = [text |-> FieldValue(field)]]_vars

====
